---------------------------- MODULE Spec2Model ----------------------------
(***************************************************************************)
(* Growth-reference calculation engine of the Pediatric Growth Tracker     *)
(* (src/growth_tracker.py, class ClinicalCDCLMSCalculator).                *)
(*                                                                         *)
(* Number representation.  The program computes in binary floating point;  *)
(* the model computes in decimal fixed point on integers:                  *)
(*   - dimensionless quantities (L, S, value/M, Z): units of 1/ONE = 1e-8  *)
(*   - measurements and medians (value, M):         units of 1/VS  = 1e-3  *)
(*   - ages in months:                              units of 1/AS  = 1e-2  *)
(*   - percentiles:                                 units of 1/PS  = 1e-6  *)
(* Products are formed by MulDiv, which never exceeds 32-bit integers, and *)
(* comparisons against M*(1 +- 4S) are exact (quotient and remainder).     *)
(***************************************************************************)
EXTENDS Integers, Sequences, FiniteSets, TLC

VARIABLES
    pc,      \* "call": the inputs are chosen, the function has not run; "done": it returned
    call,    \* the function called and its arguments
    ret,     \* what the function returned (None or Some(v))
    trace,   \* the stages the call went through, in order
    session, \* st.session_state
    tables   \* the process's CDC_LMS_DATA: the dicts of the class attribute

vars == <<pc, call, ret, trace, session, tables>>

ONE == 10000 * 10000
VS == 10 * 100
AS == 10 * 10
PS == 1000 * 1000

\* Python's None and a returned value.
None == [isNone |-> TRUE]
Some(v) == [isNone |-> FALSE, val |-> v]

Abs(a) == IF a < 0 THEN -a ELSE a
Sgn(a) == IF a < 0 THEN -1 ELSE IF a > 0 THEN 1 ELSE 0
Max2(a, b) == IF a >= b THEN a ELSE b
Min2(a, b) == IF a <= b THEN a ELSE b

(***************************************************************************)
(* a*b = q*c + r with 0 <= r < c, for a, b >= 0 and c > 0, by binary long  *)
(* multiplication; no intermediate exceeds 2c + a.                         *)
(***************************************************************************)
RECURSIVE MulDivRem(_, _, _)
MulDivRem(a, b, c) ==
    IF b = 0 THEN [q |-> 0, r |-> 0]
    ELSE LET h == MulDivRem(a, b \div 2, c)
             t == 2 * h.r + (b % 2) * a
         IN  [q |-> 2 * h.q + (t \div c), r |-> t % c]

\* a*b/c truncated toward zero, any signs (c # 0): a float product or quotient.
MulDiv(a, b, c) ==
    Sgn(a) * Sgn(b) * Sgn(c) * MulDivRem(Abs(a), Abs(b), Abs(c)).q

\* a*b <= c*d, exactly (a, b, d >= 0, c > 0).
ProdLeq(a, b, c, d) ==
    LET m == MulDivRem(a, b, c)
    IN  m.q < d \/ (m.q = d /\ m.r = 0)

\* a*b >= c*d, exactly (a, b, d >= 0, c > 0).
ProdGeq(a, b, c, d) == MulDivRem(a, b, c).q >= d

(***************************************************************************)
(* math: natural logarithm, exponential and power in fixed point.          *)
(***************************************************************************)
\* ln 2 in 1e-8 units.
LN2 == 69314718

\* a/b truncated toward zero (b > 0).
Div(a, b) == Sgn(a) * (Abs(a) \div b)

\* y + y^3/3 + y^5/5 + ... (k = 1, 3, 5, ...; p = y^k), the artanh series,
\* until the power vanishes.
RECURSIVE AtanhSeries(_, _, _)
AtanhSeries(y2, p, k) ==
    IF p = 0 THEN 0
    ELSE Div(p, k) + AtanhSeries(y2, MulDiv(p, y2, ONE), k + 2)

\* ln(x) for x > 0 (x in 1e-8 units): halve or double into [0.75, 1.5], then
\* ln(x) = 2 artanh((x-1)/(x+1)).
RECURSIVE Ln(_)
Ln(x) ==
    IF x > (3 * ONE) \div 2 THEN LN2 + Ln(x \div 2)
    ELSE IF x < (3 * ONE) \div 4 THEN Ln(2 * x) - LN2
    ELSE LET y == MulDiv(x - ONE, ONE, x + ONE)
         IN  2 * AtanhSeries(MulDiv(y, y, ONE), y, 1)

\* 1 + u + u^2/2! + ... (term = u^n/n!), until the term vanishes.
RECURSIVE ExpSeries(_, _, _)
ExpSeries(u, term, n) ==
    IF term = 0 THEN 0
    ELSE term + ExpSeries(u, Div(MulDiv(term, u, ONE), n), n + 1)

Exp(u) == ExpSeries(u, ONE, 1)

\* x^n for a whole number n >= 0, by repeated multiplication.
RECURSIVE IntPow(_, _)
IntPow(x, n) == IF n = 0 THEN ONE ELSE MulDiv(IntPow(x, n - 1), x, ONE)

\* (x) ** (L) for x > 0: exact for whole L (as pow is), exp(L ln x) otherwise.
Pow(x, L) ==
    IF L % ONE = 0
    THEN IF L >= 0 THEN IntPow(x, L \div ONE)
         ELSE MulDiv(ONE, ONE, IntPow(x, (-L) \div ONE))
    ELSE Exp(MulDiv(L, Ln(x), ONE))

\* CDC_LMS_DATA['male']['weight_age'] (source lines 107-155):
\* age in 1/100 month :> L, S in 1e-8 units, M in 1/1000 units.
LMS_male_weight_age ==
    0 :> [L |-> -17330000, M |-> 3530, S |-> 8217000] @@
    50 :> [L |-> -17330000, M |-> 4530, S |-> 8217000] @@
    100 :> [L |-> -17330000, M |-> 5080, S |-> 8217000] @@
    150 :> [L |-> -17330000, M |-> 5440, S |-> 8217000] @@
    200 :> [L |-> 9720000, M |-> 5850, S |-> 9183000] @@
    250 :> [L |-> 9720000, M |-> 6390, S |-> 9183000] @@
    300 :> [L |-> 9720000, M |-> 6800, S |-> 9183000] @@
    350 :> [L |-> 9720000, M |-> 7210, S |-> 9183000] @@
    400 :> [L |-> 24020000, M |-> 7570, S |-> 9403000] @@
    450 :> [L |-> 24020000, M |-> 7930, S |-> 9403000] @@
    500 :> [L |-> 24020000, M |-> 8240, S |-> 9403000] @@
    550 :> [L |-> 24020000, M |-> 8550, S |-> 9403000] @@
    600 :> [L |-> 34300000, M |-> 8860, S |-> 9502000] @@
    700 :> [L |-> 34300000, M |-> 9320, S |-> 9502000] @@
    800 :> [L |-> 42180000, M |-> 9770, S |-> 9503000] @@
    900 :> [L |-> 42180000, M |-> 10200, S |-> 9503000] @@
    1000 :> [L |-> 51530000, M |-> 10670, S |-> 9431000] @@
    1100 :> [L |-> 51530000, M |-> 11100, S |-> 9431000] @@
    1200 :> [L |-> 51530000, M |-> 11530, S |-> 9431000] @@
    1300 :> [L |-> 55480000, M |-> 11930, S |-> 9213000] @@
    1400 :> [L |-> 55480000, M |-> 12350, S |-> 9213000] @@
    1500 :> [L |-> 56470000, M |-> 12670, S |-> 8920000] @@
    1600 :> [L |-> 56470000, M |-> 13030, S |-> 8920000] @@
    1700 :> [L |-> 55480000, M |-> 13560, S |-> 8627000] @@
    1800 :> [L |-> 55480000, M |-> 13850, S |-> 8627000] @@
    1900 :> [L |-> 55480000, M |-> 14260, S |-> 8627000] @@
    2000 :> [L |-> 55480000, M |-> 14580, S |-> 8627000] @@
    2100 :> [L |-> 55480000, M |-> 14880, S |-> 8627000] @@
    2200 :> [L |-> 55480000, M |-> 15200, S |-> 8627000] @@
    2300 :> [L |-> 55480000, M |-> 15580, S |-> 8627000] @@
    2400 :> [L |-> 55480000, M |-> 15920, S |-> 8627000] @@
    2500 :> [L |-> 55480000, M |-> 16250, S |-> 8627000] @@
    2600 :> [L |-> 55480000, M |-> 16570, S |-> 8627000] @@
    2700 :> [L |-> 55480000, M |-> 16880, S |-> 8627000] @@
    2800 :> [L |-> 55480000, M |-> 17180, S |-> 8627000] @@
    2900 :> [L |-> 55480000, M |-> 17470, S |-> 8627000] @@
    3000 :> [L |-> 55480000, M |-> 17750, S |-> 8627000] @@
    3100 :> [L |-> 55480000, M |-> 18030, S |-> 8627000] @@
    3200 :> [L |-> 55480000, M |-> 18300, S |-> 8627000] @@
    3300 :> [L |-> 55480000, M |-> 18570, S |-> 8627000] @@
    3400 :> [L |-> 55480000, M |-> 18830, S |-> 8627000] @@
    3500 :> [L |-> 55480000, M |-> 19090, S |-> 8627000] @@
    3600 :> [L |-> 55480000, M |-> 19340, S |-> 8627000]

\* CDC_LMS_DATA['male']['height_age'] (source lines 156-204):
\* age in 1/100 month :> L, S in 1e-8 units, M in 1/1000 units.
LMS_male_height_age ==
    0 :> [L |-> 100000000, M |-> 50400, S |-> 3685000] @@
    50 :> [L |-> 100000000, M |-> 55600, S |-> 3685000] @@
    100 :> [L |-> 100000000, M |-> 58400, S |-> 3530000] @@
    150 :> [L |-> 100000000, M |-> 61400, S |-> 3270000] @@
    200 :> [L |-> 100000000, M |-> 63200, S |-> 3270000] @@
    250 :> [L |-> 100000000, M |-> 64100, S |-> 3270000] @@
    300 :> [L |-> 100000000, M |-> 65500, S |-> 3200000] @@
    350 :> [L |-> 100000000, M |-> 67300, S |-> 3200000] @@
    400 :> [L |-> 100000000, M |-> 68700, S |-> 3200000] @@
    450 :> [L |-> 100000000, M |-> 69500, S |-> 3200000] @@
    500 :> [L |-> 100000000, M |-> 70500, S |-> 3140000] @@
    550 :> [L |-> 100000000, M |-> 71600, S |-> 3140000] @@
    600 :> [L |-> 100000000, M |-> 72500, S |-> 3140000] @@
    700 :> [L |-> 100000000, M |-> 73300, S |-> 3140000] @@
    800 :> [L |-> 100000000, M |-> 74500, S |-> 3080000] @@
    900 :> [L |-> 100000000, M |-> 75700, S |-> 3080000] @@
    1000 :> [L |-> 100000000, M |-> 77000, S |-> 3080000] @@
    1100 :> [L |-> 100000000, M |-> 78300, S |-> 3040000] @@
    1200 :> [L |-> 100000000, M |-> 79700, S |-> 3040000] @@
    1300 :> [L |-> 100000000, M |-> 81200, S |-> 2980000] @@
    1400 :> [L |-> 100000000, M |-> 82500, S |-> 2980000] @@
    1500 :> [L |-> 100000000, M |-> 83900, S |-> 2890000] @@
    1600 :> [L |-> 100000000, M |-> 85300, S |-> 2890000] @@
    1700 :> [L |-> 100000000, M |-> 86700, S |-> 2890000] @@
    1800 :> [L |-> 100000000, M |-> 88100, S |-> 2890000] @@
    1900 :> [L |-> 100000000, M |-> 89500, S |-> 2810000] @@
    2000 :> [L |-> 100000000, M |-> 90900, S |-> 2810000] @@
    2100 :> [L |-> 100000000, M |-> 92300, S |-> 2810000] @@
    2200 :> [L |-> 100000000, M |-> 93600, S |-> 2750000] @@
    2300 :> [L |-> 100000000, M |-> 95000, S |-> 2750000] @@
    2400 :> [L |-> 100000000, M |-> 96400, S |-> 2750000] @@
    2500 :> [L |-> 100000000, M |-> 97700, S |-> 2710000] @@
    2600 :> [L |-> 100000000, M |-> 99000, S |-> 2710000] @@
    2700 :> [L |-> 100000000, M |-> 100300, S |-> 2680000] @@
    2800 :> [L |-> 100000000, M |-> 101600, S |-> 2680000] @@
    2900 :> [L |-> 100000000, M |-> 102900, S |-> 2660000] @@
    3000 :> [L |-> 100000000, M |-> 104200, S |-> 2660000] @@
    3100 :> [L |-> 100000000, M |-> 105400, S |-> 2640000] @@
    3200 :> [L |-> 100000000, M |-> 106600, S |-> 2640000] @@
    3300 :> [L |-> 100000000, M |-> 107800, S |-> 2630000] @@
    3400 :> [L |-> 100000000, M |-> 109000, S |-> 2630000] @@
    3500 :> [L |-> 100000000, M |-> 110200, S |-> 2620000] @@
    3600 :> [L |-> 100000000, M |-> 111400, S |-> 2620000]

\* CDC_LMS_DATA['male']['bmi_age'] (source lines 205-253):
\* age in 1/100 month :> L, S in 1e-8 units, M in 1/1000 units.
LMS_male_bmi_age ==
    0 :> [L |-> -6310000, M |-> 13900, S |-> 7100000] @@
    50 :> [L |-> -6310000, M |-> 15500, S |-> 7100000] @@
    100 :> [L |-> -16060000, M |-> 16300, S |-> 8300000] @@
    150 :> [L |-> -16060000, M |-> 16900, S |-> 8300000] @@
    200 :> [L |-> -17300000, M |-> 17100, S |-> 8500000] @@
    250 :> [L |-> -17300000, M |-> 17100, S |-> 8500000] @@
    300 :> [L |-> -17300000, M |-> 17200, S |-> 8500000] @@
    350 :> [L |-> -17300000, M |-> 17400, S |-> 8500000] @@
    400 :> [L |-> -15900000, M |-> 17500, S |-> 8600000] @@
    450 :> [L |-> -15900000, M |-> 17600, S |-> 8600000] @@
    500 :> [L |-> -15900000, M |-> 17700, S |-> 8600000] @@
    550 :> [L |-> -15900000, M |-> 17800, S |-> 8600000] @@
    600 :> [L |-> -12300000, M |-> 17900, S |-> 8600000] @@
    700 :> [L |-> -12300000, M |-> 17900, S |-> 8600000] @@
    800 :> [L |-> -12300000, M |-> 17800, S |-> 8600000] @@
    900 :> [L |-> -3300000, M |-> 17700, S |-> 8400000] @@
    1000 :> [L |-> -3300000, M |-> 17500, S |-> 8400000] @@
    1100 :> [L |-> 5000000, M |-> 17300, S |-> 8200000] @@
    1200 :> [L |-> 5000000, M |-> 17000, S |-> 8200000] @@
    1300 :> [L |-> 12500000, M |-> 16800, S |-> 8000000] @@
    1400 :> [L |-> 12500000, M |-> 16700, S |-> 8000000] @@
    1500 :> [L |-> 18500000, M |-> 16600, S |-> 7800000] @@
    1600 :> [L |-> 18500000, M |-> 16500, S |-> 7800000] @@
    1700 :> [L |-> 23000000, M |-> 16400, S |-> 7600000] @@
    1800 :> [L |-> 23000000, M |-> 16400, S |-> 7600000] @@
    1900 :> [L |-> 26000000, M |-> 16400, S |-> 7500000] @@
    2000 :> [L |-> 26000000, M |-> 16400, S |-> 7500000] @@
    2100 :> [L |-> 28500000, M |-> 16400, S |-> 7400000] @@
    2200 :> [L |-> 28500000, M |-> 16500, S |-> 7400000] @@
    2300 :> [L |-> 30500000, M |-> 16500, S |-> 7300000] @@
    2400 :> [L |-> 30500000, M |-> 16600, S |-> 7300000] @@
    2500 :> [L |-> 32000000, M |-> 16700, S |-> 7200000] @@
    2600 :> [L |-> 32000000, M |-> 16800, S |-> 7200000] @@
    2700 :> [L |-> 33500000, M |-> 16900, S |-> 7100000] @@
    2800 :> [L |-> 33500000, M |-> 17000, S |-> 7100000] @@
    2900 :> [L |-> 34500000, M |-> 17100, S |-> 7000000] @@
    3000 :> [L |-> 34500000, M |-> 17200, S |-> 7000000] @@
    3100 :> [L |-> 35500000, M |-> 17300, S |-> 6900000] @@
    3200 :> [L |-> 35500000, M |-> 17400, S |-> 6900000] @@
    3300 :> [L |-> 36000000, M |-> 17500, S |-> 6800000] @@
    3400 :> [L |-> 36000000, M |-> 17600, S |-> 6800000] @@
    3500 :> [L |-> 36500000, M |-> 17700, S |-> 6700000] @@
    3600 :> [L |-> 36500000, M |-> 17800, S |-> 6700000]

\* CDC_LMS_DATA['male']['head_age'] (source lines 254-302):
\* age in 1/100 month :> L, S in 1e-8 units, M in 1/1000 units.
LMS_male_head_age ==
    0 :> [L |-> 100000000, M |-> 35800, S |-> 3630000] @@
    50 :> [L |-> 100000000, M |-> 38100, S |-> 3630000] @@
    100 :> [L |-> 100000000, M |-> 39500, S |-> 3110000] @@
    150 :> [L |-> 100000000, M |-> 41000, S |-> 3110000] @@
    200 :> [L |-> 100000000, M |-> 42000, S |-> 3110000] @@
    250 :> [L |-> 100000000, M |-> 42500, S |-> 3110000] @@
    300 :> [L |-> 100000000, M |-> 43200, S |-> 2930000] @@
    350 :> [L |-> 100000000, M |-> 43900, S |-> 2930000] @@
    400 :> [L |-> 100000000, M |-> 44400, S |-> 2930000] @@
    450 :> [L |-> 100000000, M |-> 44800, S |-> 2930000] @@
    500 :> [L |-> 100000000, M |-> 45200, S |-> 2820000] @@
    550 :> [L |-> 100000000, M |-> 45700, S |-> 2820000] @@
    600 :> [L |-> 100000000, M |-> 46100, S |-> 2820000] @@
    700 :> [L |-> 100000000, M |-> 46400, S |-> 2820000] @@
    800 :> [L |-> 100000000, M |-> 46800, S |-> 2740000] @@
    900 :> [L |-> 100000000, M |-> 47200, S |-> 2740000] @@
    1000 :> [L |-> 100000000, M |-> 47500, S |-> 2740000] @@
    1100 :> [L |-> 100000000, M |-> 47800, S |-> 2680000] @@
    1200 :> [L |-> 100000000, M |-> 48200, S |-> 2680000] @@
    1300 :> [L |-> 100000000, M |-> 48500, S |-> 2630000] @@
    1400 :> [L |-> 100000000, M |-> 48800, S |-> 2630000] @@
    1500 :> [L |-> 100000000, M |-> 49100, S |-> 2560000] @@
    1600 :> [L |-> 100000000, M |-> 49400, S |-> 2560000] @@
    1700 :> [L |-> 100000000, M |-> 49700, S |-> 2500000] @@
    1800 :> [L |-> 100000000, M |-> 50000, S |-> 2500000] @@
    1900 :> [L |-> 100000000, M |-> 50300, S |-> 2460000] @@
    2000 :> [L |-> 100000000, M |-> 50500, S |-> 2460000] @@
    2100 :> [L |-> 100000000, M |-> 50700, S |-> 2420000] @@
    2200 :> [L |-> 100000000, M |-> 50900, S |-> 2420000] @@
    2300 :> [L |-> 100000000, M |-> 51100, S |-> 2390000] @@
    2400 :> [L |-> 100000000, M |-> 51300, S |-> 2390000] @@
    2500 :> [L |-> 100000000, M |-> 51500, S |-> 2360000] @@
    2600 :> [L |-> 100000000, M |-> 51700, S |-> 2360000] @@
    2700 :> [L |-> 100000000, M |-> 51800, S |-> 2330000] @@
    2800 :> [L |-> 100000000, M |-> 52000, S |-> 2330000] @@
    2900 :> [L |-> 100000000, M |-> 52100, S |-> 2310000] @@
    3000 :> [L |-> 100000000, M |-> 52300, S |-> 2310000] @@
    3100 :> [L |-> 100000000, M |-> 52400, S |-> 2290000] @@
    3200 :> [L |-> 100000000, M |-> 52500, S |-> 2290000] @@
    3300 :> [L |-> 100000000, M |-> 52600, S |-> 2270000] @@
    3400 :> [L |-> 100000000, M |-> 52700, S |-> 2270000] @@
    3500 :> [L |-> 100000000, M |-> 52800, S |-> 2250000] @@
    3600 :> [L |-> 100000000, M |-> 52900, S |-> 2250000]

\* CDC_LMS_DATA['female']['weight_age'] (source lines 305-353):
\* age in 1/100 month :> L, S in 1e-8 units, M in 1/1000 units.
LMS_female_weight_age ==
    0 :> [L |-> -17330000, M |-> 3400, S |-> 8217000] @@
    50 :> [L |-> -17330000, M |-> 4350, S |-> 8217000] @@
    100 :> [L |-> 9720000, M |-> 5150, S |-> 9183000] @@
    150 :> [L |-> 9720000, M |-> 5900, S |-> 9183000] @@
    200 :> [L |-> 9720000, M |-> 6270, S |-> 9183000] @@
    250 :> [L |-> 9720000, M |-> 6640, S |-> 9183000] @@
    300 :> [L |-> 24020000, M |-> 7070, S |-> 9403000] @@
    350 :> [L |-> 24020000, M |-> 7340, S |-> 9403000] @@
    400 :> [L |-> 24020000, M |-> 7640, S |-> 9403000] @@
    450 :> [L |-> 24020000, M |-> 7930, S |-> 9403000] @@
    500 :> [L |-> 34300000, M |-> 8230, S |-> 9502000] @@
    550 :> [L |-> 34300000, M |-> 8530, S |-> 9502000] @@
    600 :> [L |-> 34300000, M |-> 8780, S |-> 9502000] @@
    700 :> [L |-> 42180000, M |-> 9030, S |-> 9503000] @@
    800 :> [L |-> 42180000, M |-> 9280, S |-> 9503000] @@
    900 :> [L |-> 42180000, M |-> 9530, S |-> 9503000] @@
    1000 :> [L |-> 51530000, M |-> 9970, S |-> 9431000] @@
    1100 :> [L |-> 51530000, M |-> 10380, S |-> 9431000] @@
    1200 :> [L |-> 51530000, M |-> 10840, S |-> 9431000] @@
    1300 :> [L |-> 55480000, M |-> 11380, S |-> 9213000] @@
    1400 :> [L |-> 55480000, M |-> 11920, S |-> 9213000] @@
    1500 :> [L |-> 56470000, M |-> 12350, S |-> 8920000] @@
    1600 :> [L |-> 56470000, M |-> 12680, S |-> 8920000] @@
    1700 :> [L |-> 55480000, M |-> 13030, S |-> 8627000] @@
    1800 :> [L |-> 55480000, M |-> 13520, S |-> 8627000] @@
    1900 :> [L |-> 55480000, M |-> 14000, S |-> 8627000] @@
    2000 :> [L |-> 55480000, M |-> 14420, S |-> 8627000] @@
    2100 :> [L |-> 55480000, M |-> 14850, S |-> 8627000] @@
    2200 :> [L |-> 55480000, M |-> 15270, S |-> 8627000] @@
    2300 :> [L |-> 55480000, M |-> 15690, S |-> 8627000] @@
    2400 :> [L |-> 55480000, M |-> 16110, S |-> 8627000] @@
    2500 :> [L |-> 55480000, M |-> 16520, S |-> 8627000] @@
    2600 :> [L |-> 55480000, M |-> 16920, S |-> 8627000] @@
    2700 :> [L |-> 55480000, M |-> 17320, S |-> 8627000] @@
    2800 :> [L |-> 55480000, M |-> 17710, S |-> 8627000] @@
    2900 :> [L |-> 55480000, M |-> 18100, S |-> 8627000] @@
    3000 :> [L |-> 55480000, M |-> 18490, S |-> 8627000] @@
    3100 :> [L |-> 55480000, M |-> 18870, S |-> 8627000] @@
    3200 :> [L |-> 55480000, M |-> 19240, S |-> 8627000] @@
    3300 :> [L |-> 55480000, M |-> 19610, S |-> 8627000] @@
    3400 :> [L |-> 55480000, M |-> 19980, S |-> 8627000] @@
    3500 :> [L |-> 55480000, M |-> 20340, S |-> 8627000] @@
    3600 :> [L |-> 55480000, M |-> 20700, S |-> 8627000]

\* CDC_LMS_DATA['female']['height_age'] (source lines 354-402):
\* age in 1/100 month :> L, S in 1e-8 units, M in 1/1000 units.
LMS_female_height_age ==
    0 :> [L |-> 100000000, M |-> 49500, S |-> 3790000] @@
    50 :> [L |-> 100000000, M |-> 54200, S |-> 3790000] @@
    100 :> [L |-> 100000000, M |-> 57300, S |-> 3530000] @@
    150 :> [L |-> 100000000, M |-> 60000, S |-> 3350000] @@
    200 :> [L |-> 100000000, M |-> 61800, S |-> 3350000] @@
    250 :> [L |-> 100000000, M |-> 62700, S |-> 3350000] @@
    300 :> [L |-> 100000000, M |-> 64200, S |-> 3240000] @@
    350 :> [L |-> 100000000, M |-> 65700, S |-> 3240000] @@
    400 :> [L |-> 100000000, M |-> 67100, S |-> 3240000] @@
    450 :> [L |-> 100000000, M |-> 67800, S |-> 3240000] @@
    500 :> [L |-> 100000000, M |-> 68900, S |-> 3140000] @@
    550 :> [L |-> 100000000, M |-> 69900, S |-> 3140000] @@
    600 :> [L |-> 100000000, M |-> 70800, S |-> 3140000] @@
    700 :> [L |-> 100000000, M |-> 71600, S |-> 3140000] @@
    800 :> [L |-> 100000000, M |-> 72800, S |-> 3080000] @@
    900 :> [L |-> 100000000, M |-> 73900, S |-> 3080000] @@
    1000 :> [L |-> 100000000, M |-> 75100, S |-> 3080000] @@
    1100 :> [L |-> 100000000, M |-> 76400, S |-> 3020000] @@
    1200 :> [L |-> 100000000, M |-> 77800, S |-> 3020000] @@
    1300 :> [L |-> 100000000, M |-> 79200, S |-> 2960000] @@
    1400 :> [L |-> 100000000, M |-> 80500, S |-> 2960000] @@
    1500 :> [L |-> 100000000, M |-> 81900, S |-> 2890000] @@
    1600 :> [L |-> 100000000, M |-> 83300, S |-> 2890000] @@
    1700 :> [L |-> 100000000, M |-> 84700, S |-> 2890000] @@
    1800 :> [L |-> 100000000, M |-> 86100, S |-> 2890000] @@
    1900 :> [L |-> 100000000, M |-> 87500, S |-> 2810000] @@
    2000 :> [L |-> 100000000, M |-> 88900, S |-> 2810000] @@
    2100 :> [L |-> 100000000, M |-> 90200, S |-> 2810000] @@
    2200 :> [L |-> 100000000, M |-> 91500, S |-> 2750000] @@
    2300 :> [L |-> 100000000, M |-> 92900, S |-> 2750000] @@
    2400 :> [L |-> 100000000, M |-> 94200, S |-> 2750000] @@
    2500 :> [L |-> 100000000, M |-> 95500, S |-> 2710000] @@
    2600 :> [L |-> 100000000, M |-> 96700, S |-> 2710000] @@
    2700 :> [L |-> 100000000, M |-> 98000, S |-> 2680000] @@
    2800 :> [L |-> 100000000, M |-> 99200, S |-> 2680000] @@
    2900 :> [L |-> 100000000, M |-> 100400, S |-> 2660000] @@
    3000 :> [L |-> 100000000, M |-> 101600, S |-> 2660000] @@
    3100 :> [L |-> 100000000, M |-> 102800, S |-> 2640000] @@
    3200 :> [L |-> 100000000, M |-> 103900, S |-> 2640000] @@
    3300 :> [L |-> 100000000, M |-> 105000, S |-> 2630000] @@
    3400 :> [L |-> 100000000, M |-> 106100, S |-> 2630000] @@
    3500 :> [L |-> 100000000, M |-> 107200, S |-> 2620000] @@
    3600 :> [L |-> 100000000, M |-> 108300, S |-> 2620000]

\* CDC_LMS_DATA['female']['bmi_age'] (source lines 403-451):
\* age in 1/100 month :> L, S in 1e-8 units, M in 1/1000 units.
LMS_female_bmi_age ==
    0 :> [L |-> -6310000, M |-> 13600, S |-> 7100000] @@
    50 :> [L |-> -6310000, M |-> 15200, S |-> 7100000] @@
    100 :> [L |-> -16060000, M |-> 16100, S |-> 8300000] @@
    150 :> [L |-> -16060000, M |-> 16500, S |-> 8300000] @@
    200 :> [L |-> -17300000, M |-> 16600, S |-> 8500000] @@
    250 :> [L |-> -17300000, M |-> 16700, S |-> 8500000] @@
    300 :> [L |-> -17300000, M |-> 16800, S |-> 8500000] @@
    350 :> [L |-> -17300000, M |-> 17000, S |-> 8500000] @@
    400 :> [L |-> -15900000, M |-> 17100, S |-> 8600000] @@
    450 :> [L |-> -15900000, M |-> 17200, S |-> 8600000] @@
    500 :> [L |-> -15900000, M |-> 17300, S |-> 8600000] @@
    550 :> [L |-> -15900000, M |-> 17400, S |-> 8600000] @@
    600 :> [L |-> -12300000, M |-> 17500, S |-> 8600000] @@
    700 :> [L |-> -12300000, M |-> 17500, S |-> 8600000] @@
    800 :> [L |-> -12300000, M |-> 17400, S |-> 8600000] @@
    900 :> [L |-> -3300000, M |-> 17300, S |-> 8400000] @@
    1000 :> [L |-> -3300000, M |-> 17100, S |-> 8400000] @@
    1100 :> [L |-> 5000000, M |-> 16900, S |-> 8200000] @@
    1200 :> [L |-> 5000000, M |-> 16700, S |-> 8200000] @@
    1300 :> [L |-> 12500000, M |-> 16600, S |-> 8000000] @@
    1400 :> [L |-> 12500000, M |-> 16500, S |-> 8000000] @@
    1500 :> [L |-> 18500000, M |-> 16400, S |-> 7800000] @@
    1600 :> [L |-> 18500000, M |-> 16300, S |-> 7800000] @@
    1700 :> [L |-> 23000000, M |-> 16200, S |-> 7600000] @@
    1800 :> [L |-> 23000000, M |-> 16200, S |-> 7600000] @@
    1900 :> [L |-> 26000000, M |-> 16200, S |-> 7500000] @@
    2000 :> [L |-> 26000000, M |-> 16200, S |-> 7500000] @@
    2100 :> [L |-> 28500000, M |-> 16300, S |-> 7400000] @@
    2200 :> [L |-> 28500000, M |-> 16400, S |-> 7400000] @@
    2300 :> [L |-> 30500000, M |-> 16500, S |-> 7300000] @@
    2400 :> [L |-> 30500000, M |-> 16600, S |-> 7300000] @@
    2500 :> [L |-> 32000000, M |-> 16700, S |-> 7200000] @@
    2600 :> [L |-> 32000000, M |-> 16800, S |-> 7200000] @@
    2700 :> [L |-> 33500000, M |-> 16900, S |-> 7100000] @@
    2800 :> [L |-> 33500000, M |-> 17000, S |-> 7100000] @@
    2900 :> [L |-> 34500000, M |-> 17100, S |-> 7000000] @@
    3000 :> [L |-> 34500000, M |-> 17200, S |-> 7000000] @@
    3100 :> [L |-> 35500000, M |-> 17300, S |-> 6900000] @@
    3200 :> [L |-> 35500000, M |-> 17400, S |-> 6900000] @@
    3300 :> [L |-> 36000000, M |-> 17500, S |-> 6800000] @@
    3400 :> [L |-> 36000000, M |-> 17600, S |-> 6800000] @@
    3500 :> [L |-> 36500000, M |-> 17700, S |-> 6700000] @@
    3600 :> [L |-> 36500000, M |-> 17800, S |-> 6700000]

\* CDC_LMS_DATA['female']['head_age'] (source lines 452-500):
\* age in 1/100 month :> L, S in 1e-8 units, M in 1/1000 units.
LMS_female_head_age ==
    0 :> [L |-> 100000000, M |-> 34800, S |-> 3630000] @@
    50 :> [L |-> 100000000, M |-> 37200, S |-> 3630000] @@
    100 :> [L |-> 100000000, M |-> 38700, S |-> 3110000] @@
    150 :> [L |-> 100000000, M |-> 39800, S |-> 3110000] @@
    200 :> [L |-> 100000000, M |-> 40700, S |-> 3110000] @@
    250 :> [L |-> 100000000, M |-> 41200, S |-> 3110000] @@
    300 :> [L |-> 100000000, M |-> 42100, S |-> 2930000] @@
    350 :> [L |-> 100000000, M |-> 42700, S |-> 2930000] @@
    400 :> [L |-> 100000000, M |-> 43200, S |-> 2930000] @@
    450 :> [L |-> 100000000, M |-> 43600, S |-> 2930000] @@
    500 :> [L |-> 100000000, M |-> 44000, S |-> 2820000] @@
    550 :> [L |-> 100000000, M |-> 44500, S |-> 2820000] @@
    600 :> [L |-> 100000000, M |-> 44900, S |-> 2820000] @@
    700 :> [L |-> 100000000, M |-> 45200, S |-> 2820000] @@
    800 :> [L |-> 100000000, M |-> 45500, S |-> 2740000] @@
    900 :> [L |-> 100000000, M |-> 45800, S |-> 2740000] @@
    1000 :> [L |-> 100000000, M |-> 46100, S |-> 2740000] @@
    1100 :> [L |-> 100000000, M |-> 46400, S |-> 2680000] @@
    1200 :> [L |-> 100000000, M |-> 46800, S |-> 2680000] @@
    1300 :> [L |-> 100000000, M |-> 47100, S |-> 2630000] @@
    1400 :> [L |-> 100000000, M |-> 47400, S |-> 2630000] @@
    1500 :> [L |-> 100000000, M |-> 47700, S |-> 2560000] @@
    1600 :> [L |-> 100000000, M |-> 48000, S |-> 2560000] @@
    1700 :> [L |-> 100000000, M |-> 48300, S |-> 2500000] @@
    1800 :> [L |-> 100000000, M |-> 48600, S |-> 2500000] @@
    1900 :> [L |-> 100000000, M |-> 48800, S |-> 2460000] @@
    2000 :> [L |-> 100000000, M |-> 49000, S |-> 2460000] @@
    2100 :> [L |-> 100000000, M |-> 49200, S |-> 2420000] @@
    2200 :> [L |-> 100000000, M |-> 49400, S |-> 2420000] @@
    2300 :> [L |-> 100000000, M |-> 49600, S |-> 2390000] @@
    2400 :> [L |-> 100000000, M |-> 49800, S |-> 2390000] @@
    2500 :> [L |-> 100000000, M |-> 50000, S |-> 2360000] @@
    2600 :> [L |-> 100000000, M |-> 50200, S |-> 2360000] @@
    2700 :> [L |-> 100000000, M |-> 50300, S |-> 2330000] @@
    2800 :> [L |-> 100000000, M |-> 50500, S |-> 2330000] @@
    2900 :> [L |-> 100000000, M |-> 50600, S |-> 2310000] @@
    3000 :> [L |-> 100000000, M |-> 50800, S |-> 2310000] @@
    3100 :> [L |-> 100000000, M |-> 50900, S |-> 2290000] @@
    3200 :> [L |-> 100000000, M |-> 51000, S |-> 2290000] @@
    3300 :> [L |-> 100000000, M |-> 51100, S |-> 2270000] @@
    3400 :> [L |-> 100000000, M |-> 51200, S |-> 2270000] @@
    3500 :> [L |-> 100000000, M |-> 51300, S |-> 2250000] @@
    3600 :> [L |-> 100000000, M |-> 51400, S |-> 2250000]
(***************************************************************************)
(* ClinicalCDCLMSCalculator                                                *)
(***************************************************************************)
CDC_LMS_DATA ==
    [male   |-> [weight_age |-> LMS_male_weight_age,
                 height_age |-> LMS_male_height_age,
                 bmi_age    |-> LMS_male_bmi_age,
                 head_age   |-> LMS_male_head_age],
     female |-> [weight_age |-> LMS_female_weight_age,
                 height_age |-> LMS_female_height_age,
                 bmi_age    |-> LMS_female_bmi_age,
                 head_age   |-> LMS_female_head_age]]

SetMax(S) == CHOOSE m \in S : \A o \in S : o <= m
SetMin(S) == CHOOSE m \in S : \A o \in S : m <= o

\* Faulty variant of Interpolate: the weight t is applied from the upper entry.
InterpolateFromUpper(lower, upper, age_months, lower_age, upper_age) ==
    upper + MulDiv(lower - upper, age_months - lower_age, upper_age - lower_age)

\* Faulty variant of Interpolate: only t * (upper - lower), the lower entry is
\* not added.
InterpolateIncrement(lower, upper, age_months, lower_age, upper_age) ==
    MulDiv(upper - lower, age_months - lower_age, upper_age - lower_age)

\* lower + t * (upper - lower) with t = (age_months - lower_age) / (upper_age -
\* lower_age) (lines 557-563).
Interpolate(lower, upper, age_months, lower_age, upper_age) ==
    lower + MulDiv(upper - lower, age_months - lower_age, upper_age - lower_age)

\* Lines 545-566: the interval around age_months and the interpolated entry.
InterpolateEntry(chart, age_months, lower_age, upper_age) ==
    IF lower_age = upper_age THEN Some(chart[lower_age])
    ELSE Some([L |-> Interpolate(chart[lower_age].L, chart[upper_age].L,
                                 age_months, lower_age, upper_age),
               M |-> Interpolate(chart[lower_age].M, chart[upper_age].M,
                                 age_months, lower_age, upper_age),
               S |-> Interpolate(chart[lower_age].S, chart[upper_age].S,
                                 age_months, lower_age, upper_age)])

\* Faulty variant of ChartEntry: no boundary checks, so that an age outside the
\* table finds no interval and gives no entry.
ChartEntryWithoutBoundary(chart, available_ages, age_months) ==
    IF available_ages = {} THEN None
    ELSE IF age_months \in available_ages THEN Some(chart[age_months])
    ELSE IF age_months < SetMin(available_ages) \/ age_months > SetMax(available_ages)
         THEN None
    ELSE InterpolateEntry(chart, age_months,
                          SetMax({a \in available_ages : a <= age_months}),
                          SetMin({a \in available_ages : a >= age_months}))

\* Faulty variant of ChartEntry: an exact match past the first age answers with
\* the row before it.
ChartEntryRowBefore(chart, available_ages, age_months) ==
    IF available_ages = {} THEN None
    ELSE IF age_months \in available_ages
         THEN IF age_months = SetMin(available_ages) THEN Some(chart[age_months])
              ELSE Some(chart[SetMax({a \in available_ages : a < age_months})])
    ELSE IF age_months < SetMin(available_ages)
         THEN Some(chart[SetMin(available_ages)])
    ELSE IF age_months > SetMax(available_ages)
         THEN Some(chart[SetMax(available_ages)])
    ELSE InterpolateEntry(chart, age_months,
                          SetMax({a \in available_ages : a <= age_months}),
                          SetMin({a \in available_ages : a >= age_months}))

\* Lines 530-566: the entry of one chart for an age (available_ages is the
\* chart's sorted keys, its first the least and its last the greatest).
ChartEntry(chart, available_ages, age_months) ==
    IF available_ages = {} THEN None
    ELSE IF age_months \in available_ages THEN Some(chart[age_months])
    ELSE IF age_months < SetMin(available_ages)
         THEN Some(chart[SetMin(available_ages)])
    ELSE IF age_months > SetMax(available_ages)
         THEN Some(chart[SetMax(available_ages)])
    ELSE InterpolateEntry(chart, age_months,
                          SetMax({a \in available_ages : a <= age_months}),
                          SetMin({a \in available_ages : a >= age_months}))

\* Faulty variant of GetLmsValues: only tabulated ages answered.
GetLmsValuesTabulatedOnly(age_months, measurement_type, gender) ==
    IF gender \notin {"male", "female"}
       \/ measurement_type \notin {"weight_age", "height_age", "bmi_age", "head_age"}
    THEN None
    ELSE IF age_months \in DOMAIN CDC_LMS_DATA[gender][measurement_type]
         THEN Some(CDC_LMS_DATA[gender][measurement_type][age_months])
    ELSE None

\* get_lms_values: None, or Some([L, M, S]) for the age (in 1/100 months).
GetLmsValues(age_months, measurement_type, gender) ==
    IF gender \notin {"male", "female"}
       \/ measurement_type \notin {"weight_age", "height_age", "bmi_age", "head_age"}
    THEN None
    ELSE ChartEntry(CDC_LMS_DATA[gender][measurement_type],
                    DOMAIN CDC_LMS_DATA[gender][measurement_type], age_months)

\* Faulty variant of ValidateClinicalRange: the upper bound exclusive.
ValidateClinicalRangeOpenAbove(value, M, S) ==
    /\ \/ ONE - 4 * S <= 0
       \/ ProdLeq(M, ONE - 4 * S, ONE, value)
    /\ ~ProdLeq(M, ONE + 4 * S, ONE, value)

\* Faulty variant of ValidateClinicalRange: every value admitted.
ValidateClinicalRangeAdmitsAll(value, M, S) == TRUE

\* _validate_clinical_range: M*(1 - 4S) <= value <= M*(1 + 4S), for value, M, S > 0.
ValidateClinicalRange(value, M, S) ==
    /\ \/ ONE - 4 * S <= 0
       \/ ProdLeq(M, ONE - 4 * S, ONE, value)
    /\ ProdGeq(M, ONE + 4 * S, ONE, value)

\* abs(L) > 1e-6
LEps == 100

\* The Z-score clamp, and the bound past which the model stops resolving the
\* unclamped transform (it is only compared with ZClamp).
ZClamp == 5
ZSat == 4 * ZClamp

\* a / S in 1e-8 units, saturating at +-ZSat.
SatDiv(a, S) ==
    IF Abs(a) >= ZSat * S THEN Sgn(a) * ZSat * ONE ELSE MulDiv(a, ONE, S)

\* (value / M) ** L raises OverflowError when the power leaves the double
\* range, |L ln(value/M)| > 709.78 (in 1e-4 units here).
PowOverflows(x, L) ==
    (L \div 1000000) * (Ln(x) \div 1000000) > 7097800

\* Faulty variant of LogTransform: the value not divided by the median.
LogTransformOfValue(value, M, S) == SatDiv(Ln(MulDiv(value, ONE, VS)), S)

LogTransform(value, M, S) == SatDiv(Ln(MulDiv(value, ONE, M)), S)

\* (e^u - 1) / u = 1 + u/2! + u^2/3! + ... (term = u^(n-1)/n!), until the term
\* vanishes.
RECURSIVE ExpM1RatioSeries(_, _, _)
ExpM1RatioSeries(u, term, n) ==
    IF term = 0 THEN 0
    ELSE term + ExpM1RatioSeries(u, Div(MulDiv(term, u, ONE), n + 1), n + 1)

\* (x ** L - 1) / L, the Box-Cox quotient before the division by S.  A double
\* carries it to 1e-8 for every L; in 1e-8 units the difference x ** L - 1
\* would lose its digits for L near 0, so for a fractional L the quotient is
\* summed as ln(x) * (e^u - 1) / u with u = L ln(x), which is the same number.
BoxCox(x, L) ==
    IF L % ONE = 0 THEN MulDiv(Pow(x, L) - ONE, ONE, L)
    ELSE MulDiv(Ln(x), ExpM1RatioSeries(MulDiv(L, Ln(x), ONE), ONE, 1), ONE)

\* Faulty variant of Transformed: the Box-Cox quotient not divided by L, which
\* for negative L falls as the value rises.
TransformedWithoutL(value, L, M, S) ==
    IF Abs(L) > LEps
    THEN SatDiv(Pow(MulDiv(value, ONE, M), L) - ONE, S)
    ELSE LogTransform(value, M, S)

\* ((value / M) ** L - 1) / (L * S), or the logarithm: the transform before the
\* clamp (lines 583-593).
Transformed(value, L, M, S) ==
    IF Abs(L) > LEps
    THEN LET x == MulDiv(value, ONE, M)
         IN  IF PowOverflows(x, L) THEN LogTransform(value, M, S)
             ELSE SatDiv(BoxCox(x, L), S)
    ELSE LogTransform(value, M, S)

\* Which transform ran.
TransformUsed(value, L, M) ==
    IF Abs(L) > LEps /\ ~PowOverflows(MulDiv(value, ONE, M), L)
    THEN "box_cox" ELSE "log"

\* Faulty variant of ClampZ: only the upper side clamped.
ClampZAboveOnly(transformed) ==
    IF transformed > ZClamp * ONE THEN ZClamp * ONE ELSE transformed

ClampZ(transformed) ==
    IF Abs(transformed) > ZClamp * ONE
    THEN (IF transformed > 0 THEN ZClamp * ONE ELSE -(ZClamp * ONE))
    ELSE transformed

\* One entry of a call log: the function, its arguments and what it gave.
Entry(fn, args, out) == [fn |-> fn, args |-> args, out |-> out]

\* Faulty variant of InvalidInputs: S not checked.
InvalidInputsWithoutS(value, M, S) == value <= 0 \/ M <= 0

\* if value <= 0 or M <= 0 or S <= 0 (line 576)
InvalidInputs(value, M, S) == value <= 0 \/ M <= 0 \/ S <= 0

\* calculate_z_score: the result, and the log of the call and of the steps it
\* ran, in order (the transform entry holds the value before the clamp).
CalculateZScore(value, L, M, S) ==
    IF InvalidInputs(value, M, S)
    THEN [ret |-> None,
          trace |-> <<Entry("calculate_z_score", <<value, L, M, S>>, None)>>]
    ELSE IF ~ValidateClinicalRange(value, M, S)
    THEN [ret |-> None,
          trace |-> <<Entry("calculate_z_score", <<value, L, M, S>>, None),
                      Entry("_validate_clinical_range", <<value, M, S>>, FALSE)>>]
    ELSE LET transformed == Transformed(value, L, M, S)
             z == Some(ClampZ(transformed))
         IN  [ret |-> z,
              trace |-> <<Entry("calculate_z_score", <<value, L, M, S>>, z),
                          Entry("_validate_clinical_range", <<value, M, S>>, TRUE),
                          Entry(TransformUsed(value, L, M), <<value, L, M, S>>,
                                transformed)>>]

\* 100 * Phi(k/100) in 1e-6 percent for k = 0..501 (scipy.stats.norm.cdf).
NormCdfTable ==
  << 50000000, 50398936, 50797831, 51196647, 51595344, 51993881, 52392218, 52790317,
     53188137, 53585639, 53982784, 54379531, 54775843, 55171679, 55567000, 55961769,
     56355946, 56749493, 57142372, 57534543, 57925971, 58316616, 58706442, 59095412,
     59483487, 59870633, 60256811, 60641987, 61026125, 61409188, 61791142, 62171952,
     62551583, 62930002, 63307174, 63683065, 64057643, 64430875, 64802729, 65173173,
     65542174, 65909703, 66275727, 66640218, 67003145, 67364478, 67724189, 68082249,
     68438630, 68793305, 69146246, 69497427, 69846821, 70194403, 70540148, 70884031,
     71226028, 71566115, 71904269, 72240468, 72574688, 72906910, 73237111, 73565271,
     73891370, 74215389, 74537309, 74857110, 75174777, 75490291, 75803635, 76114793,
     76423750, 76730491, 77035000, 77337265, 77637271, 77935005, 78230456, 78523612,
     78814460, 79102991, 79389195, 79673061, 79954581, 80233746, 80510548, 80784980,
     81057035, 81326706, 81593987, 81858875, 82121362, 82381446, 82639122, 82894387,
     83147239, 83397675, 83645694, 83891294, 84134475, 84375235, 84613577, 84849500,
     85083005, 85314094, 85542770, 85769035, 85992891, 86214343, 86433394, 86650049,
     86864312, 87076189, 87285685, 87492806, 87697560, 87899952, 88099989, 88297680,
     88493033, 88686055, 88876756, 89065145, 89251230, 89435023, 89616532, 89795768,
     89972743, 90147467, 90319952, 90490208, 90658249, 90824086, 90987733, 91149201,
     91308504, 91465655, 91620668, 91773556, 91924334, 92073016, 92219616, 92364149,
     92506630, 92647074, 92785496, 92921912, 93056338, 93188788, 93319280, 93447829,
     93574451, 93699164, 93821982, 93942924, 94062006, 94179244, 94294657, 94408260,
     94520071, 94630107, 94738386, 94844925, 94949742, 95052853, 95154277, 95254032,
     95352134, 95448602, 95543454, 95636706, 95728378, 95818486, 95907049, 95994084,
     96079610, 96163643, 96246202, 96327304, 96406968, 96485211, 96562050, 96637503,
     96711588, 96784323, 96855724, 96925809, 96994596, 97062102, 97128344, 97193339,
     97257105, 97319658, 97381016, 97441194, 97500210, 97558081, 97614824, 97670453,
     97724987, 97778441, 97830831, 97882173, 97932484, 97981778, 98030073, 98077383,
     98123723, 98169110, 98213558, 98257082, 98299698, 98341419, 98382262, 98422239,
     98461367, 98499658, 98537127, 98573788, 98609655, 98644742, 98679062, 98712628,
     98745454, 98777553, 98808937, 98839621, 98869616, 98898934, 98927589, 98955592,
     98982956, 99009692, 99035813, 99061329, 99086253, 99110596, 99134368, 99157581,
     99180246, 99202374, 99223975, 99245059, 99265637, 99285719, 99305315, 99324435,
     99343088, 99361285, 99379033, 99396344, 99413226, 99429687, 99445738, 99461385,
     99476639, 99491507, 99505998, 99520120, 99533881, 99547289, 99560351, 99573076,
     99585470, 99597541, 99609297, 99620744, 99631889, 99642740, 99653303, 99663584,
     99673590, 99683328, 99692804, 99702024, 99710993, 99719719, 99728206, 99736460,
     99744487, 99752293, 99759882, 99767260, 99774432, 99781404, 99788179, 99794764,
     99801162, 99807379, 99813419, 99819286, 99824984, 99830519, 99835894, 99841113,
     99846180, 99851100, 99855876, 99860511, 99865010, 99869376, 99873613, 99877723,
     99881711, 99885579, 99889332, 99892971, 99896500, 99899922, 99903240, 99906456,
     99909574, 99912597, 99915526, 99918365, 99921115, 99923781, 99926362, 99928864,
     99931286, 99933633, 99935905, 99938105, 99940235, 99942297, 99944294, 99946226,
     99948096, 99949906, 99951658, 99953352, 99954991, 99956577, 99958111, 99959594,
     99961029, 99962416, 99963757, 99965054, 99966307, 99967519, 99968689, 99969821,
     99970914, 99971971, 99972991, 99973977, 99974929, 99975849, 99976737, 99977595,
     99978423, 99979222, 99979994, 99980738, 99981457, 99982151, 99982820, 99983466,
     99984089, 99984690, 99985270, 99985829, 99986368, 99986888, 99987389, 99987872,
     99988338, 99988787, 99989220, 99989637, 99990039, 99990426, 99990799, 99991158,
     99991504, 99991838, 99992159, 99992468, 99992765, 99993052, 99993327, 99993593,
     99993848, 99994094, 99994331, 99994558, 99994777, 99994988, 99995190, 99995385,
     99995573, 99995753, 99995926, 99996092, 99996253, 99996406, 99996554, 99996696,
     99996833, 99996964, 99997090, 99997211, 99997327, 99997439, 99997546, 99997649,
     99997748, 99997843, 99997934, 99998022, 99998106, 99998186, 99998263, 99998338,
     99998409, 99998477, 99998542, 99998605, 99998665, 99998723, 99998778, 99998832,
     99998882, 99998931, 99998978, 99999023, 99999066, 99999107, 99999146, 99999184,
     99999220, 99999254, 99999288, 99999319, 99999350, 99999379, 99999407, 99999433,
     99999459, 99999483, 99999506, 99999529, 99999550, 99999571, 99999590, 99999609,
     99999627, 99999644, 99999660, 99999676, 99999691, 99999705, 99999719, 99999732,
     99999744, 99999756, 99999768, 99999778, 99999789, 99999799, 99999808, 99999817,
     99999826, 99999834, 99999842, 99999849, 99999857, 99999863, 99999870, 99999876,
     99999882, 99999888, 99999893, 99999898, 99999903, 99999908, 99999912, 99999917,
     99999921, 99999925, 99999928, 99999932, 99999935, 99999938, 99999941, 99999944,
     99999947, 99999950, 99999952, 99999954, 99999957, 99999959, 99999961, 99999963,
     99999965, 99999967, 99999968, 99999970, 99999971, 99999973 >>

\* 100 * scipy.stats.norm.cdf(z) in 1e-6 percent, from the CDF tabulated at
\* z = 0, 0.01, ..., 5.01 and linear in between; Phi(-z) = 1 - Phi(z).
NormCdf100(z) ==
    LET a == Abs(z)
        step == ONE \div 100
        i == Min2(a \div step, 500)
        f == IF a \div step >= 500 THEN 0 ELSE a % step
        up == NormCdfTable[i + 1] + MulDiv(NormCdfTable[i + 2] - NormCdfTable[i + 1], f, step)
    IN  IF z >= 0 THEN up ELSE 100 * PS - up

PctMin == PS \div 100
PctMax == 100 * PS - PS \div 100

\* Faulty variant of CalculatePercentile: clamped to [0, 100].
CalculatePercentileTo100(z_score) ==
    IF z_score.isNone THEN None
    ELSE Some(Max2(0, Min2(100 * PS, NormCdf100(z_score.val))))

\* calculate_percentile
CalculatePercentile(z_score) ==
    IF z_score.isNone THEN None
    ELSE Some(Max2(PctMin, Min2(PctMax, NormCdf100(z_score.val))))

\* validate_measurement
clinical_ranges ==
    [weight_age |-> <<500, 150000>>,
     height_age |-> <<30000, 200000>>,
     bmi_age    |-> <<10000, 40000>>,
     head_age   |-> <<20000, 65000>>]

\* Faulty variant of ValidateMeasurement: the bounds themselves rejected.
ValidateMeasurementExclusive(value, measurement_type) ==
    IF measurement_type \notin DOMAIN clinical_ranges THEN FALSE
    ELSE clinical_ranges[measurement_type][1] < value
         /\ value < clinical_ranges[measurement_type][2]

\* Faulty variant of ValidateMeasurement: only the upper bound checked.
ValidateMeasurementUpperOnly(value, measurement_type) ==
    IF measurement_type \notin DOMAIN clinical_ranges THEN FALSE
    ELSE value <= clinical_ranges[measurement_type][2]

ValidateMeasurement(value, measurement_type) ==
    IF measurement_type \notin DOMAIN clinical_ranges THEN FALSE
    ELSE LET min_val == clinical_ranges[measurement_type][1]
             max_val == clinical_ranges[measurement_type][2]
         IN  min_val <= value /\ value <= max_val

\* Faulty variant of ClassifyBmi: the band edges at -2 and 2 moved to the other band.
ClassifyBmiEdgesMoved(z) ==
    IF z <= -2 * ONE THEN <<"Severe underweight", "severe">>
    ELSE IF z < -ONE THEN <<"Moderate underweight", "moderate">>
    ELSE IF z <= ONE THEN <<"Healthy weight", "normal">>
    ELSE IF z < 2 * ONE THEN <<"Overweight", "moderate">>
    ELSE <<"Obese", "severe">>

\* classify_growth, the BMI policy (lines 717-728): <<classification, severity>>
ClassifyBmi(z) ==
    IF z < -2 * ONE THEN <<"Severe underweight", "severe">>
    ELSE IF z < -ONE THEN <<"Moderate underweight", "moderate">>
    ELSE IF z <= ONE THEN <<"Healthy weight", "normal">>
    ELSE IF z <= 2 * ONE THEN <<"Overweight", "moderate">>
    ELSE <<"Obese", "severe">>

\* Faulty variant of ClassifyOther: the band edges at -3 and 3 moved to the other band.
ClassifyOtherEdgesMoved(z) ==
    IF z <= -3 * ONE THEN <<"Extremely low (< 0.1%)", "critical">>
    ELSE IF z < -2 * ONE THEN <<"Very low (< 2.3%)", "severe">>
    ELSE IF z < -ONE THEN <<"Mildly low (2.3-15.9%)", "moderate">>
    ELSE IF z <= ONE THEN <<"Normal (15.9-84.1%)", "normal">>
    ELSE IF z <= 2 * ONE THEN <<"High (84.1-97.7%)", "moderate">>
    ELSE IF z < 3 * ONE THEN <<"Very high (97.7-99.9%)", "severe">>
    ELSE <<"Extremely high (> 99.9%)", "critical">>

\* classify_growth, the policy of the other parameters (lines 729-744)
ClassifyOther(z) ==
    IF z < -3 * ONE THEN <<"Extremely low (< 0.1%)", "critical">>
    ELSE IF z < -2 * ONE THEN <<"Very low (< 2.3%)", "severe">>
    ELSE IF z < -ONE THEN <<"Mildly low (2.3-15.9%)", "moderate">>
    ELSE IF z <= ONE THEN <<"Normal (15.9-84.1%)", "normal">>
    ELSE IF z <= 2 * ONE THEN <<"High (84.1-97.7%)", "moderate">>
    ELSE IF z <= 3 * ONE THEN <<"Very high (97.7-99.9%)", "severe">>
    ELSE <<"Extremely high (> 99.9%)", "critical">>

\* classify_growth: <<classification, severity>>
ClassifyGrowth(z_score, measurement_type) ==
    IF z_score.isNone THEN <<"Unable to calculate", "unknown">>
    ELSE IF measurement_type = "bmi_age" THEN ClassifyBmi(z_score.val)
    ELSE ClassifyOther(z_score.val)

\* calculate_exact_percentiles
CalculateExactPercentiles(z_score) ==
    IF z_score.isNone THEN <<>>
    ELSE [percentile_3rd  |-> NormCdf100(-188000000),
          percentile_5th  |-> NormCdf100(-164500000),
          percentile_10th |-> NormCdf100(-128000000),
          percentile_25th |-> NormCdf100(-67400000),
          percentile_50th |-> 50 * PS,
          percentile_75th |-> NormCdf100(67400000),
          percentile_90th |-> NormCdf100(128000000),
          percentile_95th |-> NormCdf100(164500000),
          percentile_97th |-> NormCdf100(188000000)]

\* Faulty variant of IsAbnormal: the moderate tier left out.
IsAbnormalWithoutModerate(severity) == severity \in {"severe", "critical"}

IsAbnormal(severity) == severity \in {"moderate", "severe", "critical"}

\* Faulty variant of EffectiveAge: the adjusted age ignored.
EffectiveAgeChronological(age_months, adjusted_age_months) ==
    Max2(0, Min2(36 * AS, age_months))

\* effective_age (lines 638-639)
EffectiveAge(age_months, adjusted_age_months) ==
    Max2(0, Min2(36 * AS, IF adjusted_age_months.isNone THEN age_months
                          ELSE adjusted_age_months.val))

\* Lines 651-672: the percentile, the classification and the result dict.
GrowthResult(value, age_months, measurement_type, adjusted_age_months, lms_data, log, z_score, percentile, cls, exact_percentiles) ==
    [ret |-> Some([value |-> value,
                   age_months |-> age_months,
                   adjusted_age_months |-> adjusted_age_months,
                   z_score |-> z_score.val,
                   percentile |-> percentile.val,
                   classification |-> cls[1],
                   severity |-> cls[2],
                   lms_data |-> lms_data,
                   is_abnormal |-> IsAbnormal(cls[2]),
                   exact_percentiles |-> exact_percentiles,
                   type |-> measurement_type]),
     trace |-> log \o <<Entry("calculate_percentile", <<z_score>>, percentile),
                        Entry("classify_growth", <<z_score, measurement_type>>, cls),
                        Entry("calculate_exact_percentiles", <<z_score>>,
                              exact_percentiles)>>]

\* Lines 646-672, given what calculate_z_score gave (zs: its result and log).
GrowthAfterZScore(value, age_months, measurement_type, adjusted_age_months, lms_data, log, zs) ==
    IF zs.ret.isNone THEN [ret |-> None, trace |-> log \o zs.trace]
    ELSE GrowthResult(value, age_months, measurement_type, adjusted_age_months,
                      lms_data, log \o zs.trace, zs.ret,
                      CalculatePercentile(zs.ret),
                      ClassifyGrowth(zs.ret, measurement_type),
                      CalculateExactPercentiles(zs.ret))

\* Lines 641-672, given what get_lms_values gave.
GrowthAfterLookup(value, age_months, measurement_type, adjusted_age_months, lms_data, log) ==
    IF lms_data.isNone THEN [ret |-> None, trace |-> log]
    ELSE GrowthAfterZScore(value, age_months, measurement_type, adjusted_age_months,
                           lms_data.val, log,
                           CalculateZScore(value, lms_data.val.L, lms_data.val.M,
                                           lms_data.val.S))

\* Faulty variant of LogLookup: the lookup is made before the validation.
LogLookupFirst(log, effective_age, measurement_type, gender, lms_data) ==
    <<Entry("get_lms_values", <<effective_age, measurement_type, gender>>,
            lms_data)>> \o log

\* The log of a get_lms_values call added to log.
LogLookup(log, effective_age, measurement_type, gender, lms_data) ==
    log \o <<Entry("get_lms_values", <<effective_age, measurement_type, gender>>,
                   lms_data)>>

\* Lines 633-672, given what validate_measurement gave.
GrowthAfterValidation(value, age_months, measurement_type, gender, adjusted_age_months, valid, lms_data) ==
    IF ~valid
    THEN [ret |-> None,
          trace |-> <<Entry("validate_measurement", <<value, measurement_type>>, valid)>>]
    ELSE GrowthAfterLookup(value, age_months, measurement_type, adjusted_age_months,
                           lms_data,
                           LogLookup(<<Entry("validate_measurement",
                                             <<value, measurement_type>>, valid)>>,
                                     EffectiveAge(age_months, adjusted_age_months),
                                     measurement_type, gender, lms_data))

\* calculate_growth_parameters: the result (None or the result dict) and the
\* log of the calculator methods it invoked, in order.  age_months is a
\* number, adjusted_age_months None or Some(number).  The lookup is evaluated
\* only when the validation passed.
CalculateGrowthParameters(value, age_months, measurement_type, gender, adjusted_age_months) ==
    GrowthAfterValidation(value, age_months, measurement_type, gender,
                          adjusted_age_months,
                          ValidateMeasurement(value, measurement_type),
                          GetLmsValues(EffectiveAge(age_months, adjusted_age_months),
                                       measurement_type, gender))

\* Faulty variant of CalculateAgeMonths: a month of 30 days.
CalculateAgeMonthsThirtyDays(birth_date, measurement_date) ==
    Some(MulDiv((measurement_date - birth_date) * AS, 1, 30))

(***************************************************************************)
(* Ages.  A date is a day number (today is day 0); an age is in 1/AS       *)
(* months.                                                                 *)
(***************************************************************************)
\* calculate_age_months: delta.days / 30.436875.
CalculateAgeMonths(birth_date, measurement_date) ==
    Some(MulDiv((measurement_date - birth_date) * AS, 1000000, 30436875))

\* weeks_preterm / 4.345 (line 1043), in 1/AS months.
AdjustmentMonths(weeks_preterm) == MulDiv(weeks_preterm * AS, 1000, 4345)

\* Faulty variant of CalculateAdjustedAge: term from 38 weeks on, not 37.
CalculateAdjustedAgeTermAt38(birth_date, measurement_date, gestational_weeks) ==
    LET chronological_age_months == CalculateAgeMonths(birth_date, measurement_date)
    IN  IF gestational_weeks >= 38 THEN <<chronological_age_months, FALSE>>
        ELSE <<Some(Max2(0, chronological_age_months.val
                            - AdjustmentMonths(40 - gestational_weeks))), TRUE>>

\* Faulty variant of CalculateAdjustedAge: the difference not held at 0.
CalculateAdjustedAgeWithoutMax(birth_date, measurement_date, gestational_weeks) ==
    LET chronological_age_months == CalculateAgeMonths(birth_date, measurement_date)
    IN  IF gestational_weeks >= 37 THEN <<chronological_age_months, FALSE>>
        ELSE <<Some(chronological_age_months.val
                    - AdjustmentMonths(40 - gestational_weeks)), TRUE>>

\* calculate_adjusted_age: <<adjusted age (None or Some), was the age adjusted>>.
CalculateAdjustedAge(birth_date, measurement_date, gestational_weeks) ==
    LET chronological_age_months == CalculateAgeMonths(birth_date, measurement_date)
    IN  IF chronological_age_months.isNone THEN <<None, FALSE>>
        ELSE IF gestational_weeks >= 37 THEN <<chronological_age_months, FALSE>>
        ELSE IF 40 - gestational_weeks <= 0 THEN <<chronological_age_months, FALSE>>
        ELSE <<Some(Max2(0, chronological_age_months.val
                            - AdjustmentMonths(40 - gestational_weeks))), TRUE>>

\* The log of a calculate_adjusted_age call: itself, then calculate_age_months.
LogAdjustedAge(birth_date, measurement_date, gestational_weeks) ==
    <<Entry("calculate_adjusted_age",
            <<birth_date, measurement_date, gestational_weeks>>,
            CalculateAdjustedAge(birth_date, measurement_date, gestational_weeks)),
      Entry("calculate_age_months", <<birth_date, measurement_date>>,
            CalculateAgeMonths(birth_date, measurement_date))>>

(***************************************************************************)
(* Validation of a submission.  A name is the sequence of its characters;  *)
(* a date is a day number (today is day 0); heights, weights and head      *)
(* circumferences are in 1/VS units; errors are the messages, in order.    *)
(***************************************************************************)
\* str.strip(): the name without its leading and trailing blanks.
RECURSIVE StripLeft(_)
StripLeft(s) == IF s # <<>> /\ Head(s) = " " THEN StripLeft(Tail(s)) ELSE s

RECURSIVE StripRight(_)
StripRight(s) ==
    IF s # <<>> /\ s[Len(s)] = " " THEN StripRight(SubSeq(s, 1, Len(s) - 1)) ELSE s

Strip(s) == StripRight(StripLeft(s))

\* One message when the condition holds (errors.append under an if).
ErrorIf(cond, message) == IF cond THEN <<message>> ELSE <<>>

\* Faulty variant of ValidatePatientData: the gestational age not checked.
ValidatePatientDataWithoutGestation(first_name, last_name, birth_date, measurement_date, gestational_age) ==
    ErrorIf(Strip(first_name) = <<>> \/ Strip(last_name) = <<>>,
            "First and last name are required")
    \o ErrorIf(Len(Strip(first_name)) < 2 \/ Len(Strip(last_name)) < 2,
               "Names must be at least 2 characters long")
    \o ErrorIf(birth_date > 0, "Birth date cannot be in the future")
    \o ErrorIf(measurement_date < birth_date,
               "Measurement date cannot be before birth date")
    \o ErrorIf(measurement_date - birth_date > 365 * 3,
               "Patient age exceeds 3 years - outside current growth chart range")

\* validate_patient_data
ValidatePatientData(first_name, last_name, birth_date, measurement_date, gestational_age) ==
    ErrorIf(Strip(first_name) = <<>> \/ Strip(last_name) = <<>>,
            "First and last name are required")
    \o ErrorIf(Len(Strip(first_name)) < 2 \/ Len(Strip(last_name)) < 2,
               "Names must be at least 2 characters long")
    \o ErrorIf(birth_date > 0, "Birth date cannot be in the future")
    \o ErrorIf(measurement_date < birth_date,
               "Measurement date cannot be before birth date")
    \o ErrorIf(measurement_date - birth_date > 365 * 3,
               "Patient age exceeds 3 years - outside current growth chart range")
    \o ErrorIf(gestational_age < 22 \/ gestational_age > 44,
               "Gestational age must be between 22 and 44 weeks")

\* validate_measurements
ValidateMeasurements(height, weight, head_circumference) ==
    ErrorIf(height <= 0 \/ weight <= 0,
            "Height and weight are required for basic growth assessment")
    \o ErrorIf(height > 0 /\ height < 30 * VS,
               "Height appears too low - please verify measurement")
    \o ErrorIf(height > 200 * VS,
               "Height appears too high - please verify measurement")
    \o ErrorIf(weight > 0 /\ weight < VS \div 2,
               "Weight appears too low - please verify measurement")
    \o ErrorIf(weight > 150 * VS,
               "Weight appears too high - please verify measurement")
    \o ErrorIf(head_circumference > 0
                   /\ (head_circumference < 20 * VS \/ head_circumference > 65 * VS),
               "Head circumference outside expected range")

\* bmi < 10 and bmi > 40 for bmi = weight_kg / (height_cm / 100) ** 2 (weights
\* and heights in 1/1000 units): weight * 10^6 < height^2, and
\* weight * 250000 > height^2.
BmiBelowTen(weight_kg, height_cm) == ~ProdLeq(height_cm, height_cm, weight_kg, 1000000)
BmiAboveForty(weight_kg, height_cm) == ~ProdLeq(weight_kg, 250000, height_cm, height_cm)

\* round(bmi, 2) in 1/1000 units: the whole part of twice the quotient in
\* 0.01 units (weight * 2 * 10^9 / height^2, dividing twice by the height),
\* plus one, halved.
RoundedBmi(weight_kg, height_cm) ==
    (((MulDivRem(weight_kg, 2000000000, height_cm).q \div height_cm) + 1) \div 2) * 10

\* Faulty variant of CalculateBmi: a BMI of exactly 10 or 40 is refused.
CalculateBmiExclusive(weight_kg, height_cm) ==
    IF weight_kg <= 0 \/ height_cm <= 0 THEN None
    ELSE IF ProdLeq(weight_kg, 1000000, height_cm, height_cm)
            \/ ProdLeq(height_cm, height_cm, weight_kg, 250000) THEN None
    ELSE Some(RoundedBmi(weight_kg, height_cm))

\* calculate_bmi: None, or weight_kg / (height_cm / 100) ** 2 rounded to 0.01.
CalculateBmi(weight_kg, height_cm) ==
    IF weight_kg <= 0 \/ height_cm <= 0 THEN None
    ELSE IF BmiBelowTen(weight_kg, height_cm) \/ BmiAboveForty(weight_kg, height_cm)
    THEN None
    ELSE Some(RoundedBmi(weight_kg, height_cm))

(***************************************************************************)
(* process_measurement_submission.  c is the call (its arguments), s the   *)
(* session state; the outcome is the session state left and the call log.  *)
(***************************************************************************)
\* st.session_state as the script sets it up; an empty dict is None.
InitialSession ==
    [measurements |-> <<>>,
     patient_info |-> None,
     charts_generated |-> FALSE,
     saved_charts |-> None,
     current_page |-> "New Measurement"]

\* One log entry per message shown (st.error, st.warning, st.info, st.success).
RECURSIVE Shown(_, _)
Shown(how, messages) ==
    IF messages = <<>> THEN <<>>
    ELSE <<Entry(how, <<Head(messages)>>, None)>> \o Shown(how, Tail(messages))

\* {'type': ..., 'date': ..., **params}: what a result adds to new_measurements,
\* nothing when it is None.
NewMeasurement(measurement_type, measurement_date, result) ==
    IF result.ret.isNone THEN <<>>
    ELSE <<[date |-> measurement_date] @@ result.ret.val>>

\* Lines 1320-1352: the new measurements stored, or the error shown.
SubmissionStore(s, log, new_measurements) ==
    IF new_measurements # <<>>
    THEN [session |-> [s EXCEPT !.measurements = @ \o new_measurements,
                                !.charts_generated = FALSE],
          trace |-> log \o Shown("st.success", <<"Growth assessment completed">>)]
    ELSE [session |-> s,
          trace |-> log \o Shown("st.error", <<"Unable to calculate growth parameters">>)]

\* Lines 1269-1352, given the four results (each evaluated only where the code
\* makes the call).
SubmissionAssessed(c, s, log, bmi, height_params, weight_params, bmi_params, head_params) ==
    SubmissionStore(
        s,
        log \o (IF c.height > 0 /\ c.weight > 0
                THEN height_params.trace \o weight_params.trace
                     \o <<Entry("calculate_bmi", <<c.weight, c.height>>, bmi)>>
                     \o (IF bmi.isNone THEN <<>> ELSE bmi_params.trace)
                ELSE <<>>)
            \o (IF c.head_circumference > 0 THEN head_params.trace ELSE <<>>),
        (IF c.height > 0 /\ c.weight > 0
         THEN NewMeasurement("height_age", c.measurement_date, height_params)
              \o NewMeasurement("weight_age", c.measurement_date, weight_params)
              \o (IF bmi.isNone THEN <<>>
                  ELSE NewMeasurement("bmi_age", c.measurement_date, bmi_params))
         ELSE <<>>)
        \o (IF c.head_circumference > 0
            THEN NewMeasurement("head_age", c.measurement_date, head_params)
            ELSE <<>>))

\* The BMI assessment (lines 1295-1300), given the BMI.
AssessBmi(c, age_months, adjusted_age_months, bmi) ==
    IF bmi.isNone THEN [ret |-> None, trace |-> <<>>]
    ELSE CalculateGrowthParameters(bmi.val, age_months, "bmi_age", c.gender,
                                   adjusted_age_months)

\* Lines 1260-1352, given the ages: patient_info stored, the assessments made.
SubmissionWithAges(c, s, log, age_months, adjusted_age_months) ==
    SubmissionAssessed(
        c,
        [s EXCEPT !.patient_info = Some([first_name |-> Strip(c.first_name),
                                         last_name |-> Strip(c.last_name),
                                         gender |-> c.gender,
                                         birth_date |-> c.birth_date,
                                         gestational_age |-> c.gestational_age])],
        log,
        CalculateBmi(c.weight, c.height),
        CalculateGrowthParameters(c.height, age_months, "height_age", c.gender,
                                  adjusted_age_months),
        CalculateGrowthParameters(c.weight, age_months, "weight_age", c.gender,
                                  adjusted_age_months),
        AssessBmi(c, age_months, adjusted_age_months, CalculateBmi(c.weight, c.height)),
        CalculateGrowthParameters(c.head_circumference, age_months, "head_age",
                                  c.gender, adjusted_age_months))

\* Lines 1245-1352, given the two ages calculated.
SubmissionAged(c, s, log, age_months, adjusted) ==
    IF age_months.isNone
    THEN [session |-> s, trace |-> log \o Shown("st.error", <<"Unable to calculate age">>)]
    ELSE SubmissionWithAges(
             c, s,
             log \o (IF age_months.val > 36 * AS
                     THEN Shown("st.warning", <<"Growth charts are optimized for ages 0-36 months">>)
                     ELSE <<>>)
                 \o (IF adjusted[2] THEN Shown("st.info", <<"Using adjusted age">>)
                     ELSE <<>>),
             age_months.val, adjusted[1])

\* Lines 1238-1352, given what validate_measurements gave.
SubmissionMeasured(c, s, log, measurement_errors) ==
    IF measurement_errors # <<>>
    THEN [session |-> s, trace |-> log \o Shown("st.error", measurement_errors)]
    ELSE SubmissionAged(
             c, s,
             log \o <<Entry("calculate_age_months",
                            <<c.birth_date, c.measurement_date>>,
                            CalculateAgeMonths(c.birth_date, c.measurement_date))>>
                 \o LogAdjustedAge(c.birth_date, c.measurement_date, c.gestational_age),
             CalculateAgeMonths(c.birth_date, c.measurement_date),
             CalculateAdjustedAge(c.birth_date, c.measurement_date, c.gestational_age))

\* Faulty variant of SubmissionChecked: the patient is stored before the
\* patient data is validated.
SubmissionCheckedStoringFirst(c, s, errors) ==
    IF errors # <<>>
    THEN [session |-> [s EXCEPT !.patient_info = Some([first_name |-> Strip(c.first_name),
                                                      last_name |-> Strip(c.last_name),
                                                      gender |-> c.gender,
                                                      birth_date |-> c.birth_date,
                                                      gestational_age |-> c.gestational_age])],
          trace |-> <<Entry("validate_patient_data",
                            <<c.first_name, c.last_name, c.birth_date,
                              c.measurement_date, c.gestational_age>>, errors)>>
                    \o Shown("st.error", errors)]
    ELSE SubmissionMeasured(
             c, s,
             <<Entry("validate_patient_data",
                     <<c.first_name, c.last_name, c.birth_date,
                       c.measurement_date, c.gestational_age>>, errors),
               Entry("validate_measurements",
                     <<c.height, c.weight, c.head_circumference>>,
                     ValidateMeasurements(c.height, c.weight, c.head_circumference))>>,
             ValidateMeasurements(c.height, c.weight, c.head_circumference))

\* Lines 1231-1352, given what validate_patient_data gave.
SubmissionChecked(c, s, errors) ==
    IF errors # <<>>
    THEN [session |-> s,
          trace |-> <<Entry("validate_patient_data",
                            <<c.first_name, c.last_name, c.birth_date,
                              c.measurement_date, c.gestational_age>>, errors)>>
                    \o Shown("st.error", errors)]
    ELSE SubmissionMeasured(
             c, s,
             <<Entry("validate_patient_data",
                     <<c.first_name, c.last_name, c.birth_date,
                       c.measurement_date, c.gestational_age>>, errors),
               Entry("validate_measurements",
                     <<c.height, c.weight, c.head_circumference>>,
                     ValidateMeasurements(c.height, c.weight, c.head_circumference))>>,
             ValidateMeasurements(c.height, c.weight, c.head_circumference))

\* process_measurement_submission
ProcessMeasurementSubmission(c, s) ==
    SubmissionChecked(c, s,
                      ValidatePatientData(c.first_name, c.last_name, c.birth_date,
                                          c.measurement_date, c.gestational_age))

(***************************************************************************)
(* The dataset check and main.  One run of the script is one call of main: *)
(* Streamlit runs it again for every widget event, with the session state  *)
(* the run before left.                                                    *)
(***************************************************************************)
\* Faulty variant of ExpectedMonths: range(0, 38).
ExpectedMonthsThrough37 == 0..37

\* set(range(0, 37)) (line 514).
ExpectedMonths == 0..36

\* expected_months - set(ages) (line 515); the table's keys are ages in 1/100
\* month.
MissingMonths(chart) == {k \in ExpectedMonths : k * AS \notin DOMAIN chart}

\* The inner loop of lines 509-518 for one gender: an issue for every
\* measurement type with months missing, in the order of the types.
RECURSIVE GenderIssues(_, _, _)
GenderIssues(data, gender, types) ==
    IF types = <<>> THEN <<>>
    ELSE (IF MissingMonths(data[gender][Head(types)]) # {}
          THEN <<[gender |-> gender, measurement_type |-> Head(types),
                  missing_months |-> MissingMonths(data[gender][Head(types)])]>>
          ELSE <<>>)
         \o GenderIssues(data, gender, Tail(types))

\* validate_dataset_completeness, of the tables data.
ValidateDatasetCompleteness(data) ==
    GenderIssues(data, "male", <<"weight_age", "height_age", "bmi_age", "head_age">>)
    \o GenderIssues(data, "female", <<"weight_age", "height_age", "bmi_age", "head_age">>)

\* The tables a process holds as cls.CDC_LMS_DATA: the embedded ones, or (to
\* exercise the branch of main taken when the check reports issues, lines
\* 1637-1640) the embedded ones with the row of month 30 left out of the
\* female head circumference table.
Dataset(id) ==
    IF id = "embedded" THEN CDC_LMS_DATA
    ELSE [CDC_LMS_DATA EXCEPT
              !.female.head_age = [a \in DOMAIN LMS_female_head_age \ {30 * AS} |->
                                       LMS_female_head_age[a]]]

\* clear_all_data
ClearAllData(s, log) ==
    [session |-> [measurements |-> <<>>,
                  patient_info |-> None,
                  charts_generated |-> FALSE,
                  saved_charts |-> None,
                  current_page |-> "New Measurement"],
     trace |-> log \o Shown("st.success", <<"All data cleared successfully!">>)]

\* The chart types for which generate_all_charts keeps a path: those with a
\* measurement (for which create_growth_chart gives a figure) whose image
\* save_chart_as_image could write (lines 1216-1223).
SavedChartTypes(s, images_saved) ==
    {t \in {"weight_age", "height_age", "head_age", "bmi_age"} :
        /\ \E i \in DOMAIN s.measurements : s.measurements[i].type = t
        /\ images_saved}

\* What create_growth_chart draws for one type (lines 1074-1122): the
\* percentile curves of the patient's gender and the measurements of the
\* type, each at its adjusted age when the gestational age is under 37
\* weeks, else at its age.
ChartPoint(m, use_adjusted_age) ==
    <<IF use_adjusted_age THEN m.adjusted_age_months ELSE Some(m.age_months),
      m.value>>
RECURSIVE ChartPoints(_, _, _)
ChartPoints(measurements, measurement_type, use_adjusted_age) ==
    IF measurements = <<>> THEN <<>>
    ELSE (IF Head(measurements).type = measurement_type
          THEN <<ChartPoint(Head(measurements), use_adjusted_age)>> ELSE <<>>)
         \o ChartPoints(Tail(measurements), measurement_type, use_adjusted_age)
ChartDrawn(measurements, patient_info, measurement_type) ==
    [gender |-> patient_info.val.gender,
     use_adjusted_age |-> patient_info.val.gestational_age < 37,
     patient |-> ChartPoints(measurements, measurement_type,
                             patient_info.val.gestational_age < 37)]

\* generate_all_charts; an empty dict is None.  A chart path stands for the
\* image that save_chart_as_image wrote there (lines 1162-1187).
GenerateAllCharts(s, images_saved) ==
    IF s.measurements = <<>> \/ s.patient_info.isNone THEN None
    ELSE IF SavedChartTypes(s, images_saved) = {} THEN None
    ELSE Some([t \in SavedChartTypes(s, images_saved) |->
                  ChartDrawn(s.measurements, s.patient_info, t)])

\* The call of generate_all_charts in the log: the measurements and the
\* patient it draws, the chart types it saved.
LogGenerateAllCharts(s, images_saved) ==
    <<Entry("generate_all_charts", <<s.measurements, s.patient_info>>,
            GenerateAllCharts(s, images_saved))>>

\* st.rerun(): the run ends here.
Rerun(s, log) == [session |-> s, trace |-> log \o <<Entry("st.rerun", <<>>, None)>>]

\* Lines 1401-1415 of show_new_measurement: the quick actions, shown when
\* there are measurements.
QuickActions(c, r) ==
    IF r.session.measurements = <<>> THEN r
    ELSE IF c.event = "btn_view_charts"
    THEN Rerun([r.session EXCEPT !.current_page = "Growth Charts"], r.trace)
    ELSE IF c.event = "btn_generate_report"
    THEN Rerun([r.session EXCEPT !.current_page = "Clinical Report"], r.trace)
    ELSE r

\* show_new_measurement
ShowNewMeasurement(c, s, log) ==
    QuickActions(c, IF c.event = "submit"
                    THEN [session |-> ProcessMeasurementSubmission(c.form, s).session,
                          trace |-> log \o ProcessMeasurementSubmission(c.form, s).trace]
                    ELSE [session |-> s, trace |-> log])

\* show_growth_history
ShowGrowthHistory(c, s, log) ==
    IF s.measurements = <<>>
    THEN [session |-> s, trace |-> log \o Shown("st.info", <<"No measurements recorded yet">>)]
    ELSE IF c.event = "btn_clear_hist"
    THEN Rerun(ClearAllData(s, log).session, ClearAllData(s, log).trace)
    ELSE [session |-> s, trace |-> log]

\* show_growth_charts
ShowGrowthCharts(c, s, log) ==
    IF s.measurements = <<>>
    THEN [session |-> s, trace |-> log \o Shown("st.info", <<"No measurements available for charts">>)]
    ELSE IF s.patient_info.isNone
    THEN [session |-> s, trace |-> log \o Shown("st.error", <<"Patient information missing">>)]
    ELSE IF \E i \in DOMAIN s.measurements : s.measurements[i].type = c.chart_type
    THEN [session |-> IF s.charts_generated THEN s
                      ELSE [s EXCEPT !.saved_charts = GenerateAllCharts(s, c.images_saved),
                                     !.charts_generated = TRUE],
          trace |-> log \o <<Entry("create_growth_chart", <<c.chart_type>>, Some(c.chart_type))>>
                        \o (IF s.charts_generated THEN <<>>
                            ELSE LogGenerateAllCharts(s, c.images_saved))]
    ELSE [session |-> s,
          trace |-> log \o <<Entry("create_growth_chart", <<c.chart_type>>, None)>>
                        \o Shown("st.error", <<"Could not generate chart">>)]

\* show_clinical_report
ShowClinicalReport(c, s, log) ==
    IF s.measurements = <<>>
    THEN [session |-> s, trace |-> log \o Shown("st.info", <<"No data available for report generation">>)]
    ELSE [session |-> IF s.charts_generated THEN s
                      ELSE [s EXCEPT !.saved_charts = GenerateAllCharts(s, c.images_saved),
                                     !.charts_generated = TRUE],
          trace |-> log \o (IF s.charts_generated THEN <<>>
                            ELSE LogGenerateAllCharts(s, c.images_saved))
                        \o (IF c.event = "btn_generate_pdf"
                            THEN <<Entry("create_clinical_report", <<>>, None)>>
                            ELSE <<>>)]

\* pages[st.session_state.current_page](calculator, report_generator) (line
\* 1665).
Dispatch(c, s, log) ==
    CASE s.current_page = "New Measurement" -> ShowNewMeasurement(c, s, log \o <<Entry("show_new_measurement", <<>>, None)>>)
      [] s.current_page = "Growth History" -> ShowGrowthHistory(c, s, log \o <<Entry("show_growth_history", <<>>, None)>>)
      [] s.current_page = "Growth Charts" -> ShowGrowthCharts(c, s, log \o <<Entry("show_growth_charts", <<>>, None)>>)
      [] s.current_page = "Clinical Report" -> ShowClinicalReport(c, s, log \o <<Entry("show_clinical_report", <<>>, None)>>)

\* Lines 1642-1665, given the log so far: the page chosen in the sidebar, the
\* Clear All Data button, the page shown.
MainNavigate(c, s, log) ==
    IF c.event = "navigate" /\ c.page # s.current_page
    THEN Rerun([s EXCEPT !.current_page = c.page], log)
    ELSE IF c.event = "clear_all"
    THEN Rerun(ClearAllData(s, log).session, ClearAllData(s, log).trace)
    ELSE Dispatch(c, s, log)

\* Lines 1634-1640, given what validate_dataset_completeness returned: the
\* sidebar shows it, and main goes on.
MainChecked(c, s, dataset_issues) ==
    MainNavigate(c, s,
                 <<Entry("validate_dataset_completeness", <<c.dataset>>, dataset_issues)>>
                 \o (IF dataset_issues = <<>>
                     THEN Shown("st.sidebar.success", <<"Complete monthly dataset (0-36 months)">>)
                     ELSE Shown("st.sidebar.warning", <<"Dataset has gaps">>)
                          \o Shown("st.sidebar.write", dataset_issues)))

\* main
Main(c, s) == MainChecked(c, s, ValidateDatasetCompleteness(Dataset(c.dataset)))

\* The rows of the tables that a stored measurement refers to: on an exact age
\* match get_lms_values returns chart[age_months], the row itself (line 536),
\* and the result dict and the stored measurement keep that reference (lines
\* 668, 1278-1318).
HeldRows(t, s) ==
    {row \in UNION {{<<gender, measurement_type, age>> :
                         age \in DOMAIN t[gender][measurement_type]} :
                    gender \in DOMAIN t, measurement_type \in DOMAIN t["male"]} :
        \E i \in DOMAIN s.measurements :
            /\ s.measurements[i].type = row[2]
            /\ EffectiveAge(s.measurements[i].age_months,
                            s.measurements[i].adjusted_age_months) = row[3]
            /\ s.measurements[i].lms_data = t[row[1]][row[2]][row[3]]}

\* Faulty variant of TablesWritten: the median of the row held by the last
\* stored measurement is rounded in place to whole units.
TablesWrittenRounding(t, s) ==
    IF s.measurements = <<>> \/ s.patient_info.isNone THEN t
    ELSE LET m == s.measurements[Len(s.measurements)]
             gender == s.patient_info.val.gender
             age == EffectiveAge(m.age_months, m.adjusted_age_months)
         IN  IF age \in DOMAIN t[gender][m.type]
             THEN [t EXCEPT ![gender][m.type][age].M = (@ \div VS) * VS]
             ELSE t

\* The tables after a run that leaves the session s: the rows are only read
\* (lines 510-515, 529-566, 647, 1092); no statement assigns to a chart, to a
\* row or to the lms_data of a result or of a stored measurement.
TablesWritten(t, s) == t

(***************************************************************************)
(* The calls checked.  Every behaviour is one call of one function of the  *)
(* program: the initial state holds the arguments, the action runs the     *)
(* function and records its result and its call log.                       *)
(***************************************************************************)
MeasurementTypes == {"weight_age", "height_age", "bmi_age", "head_age"}
TypeInputs == MeasurementTypes \cup {"length_age"}
GenderInputs == {"male", "female", "other"}

\* Z-scores tried: every quarter up to MaxZSteps steps either side of 0,
\* each with its two neighbours 1e-8 away, and None.
MaxZSteps == 22
ZInputs ==
    {None} \cup {Some(k * (ONE \div 4) + d) :
                    k \in -MaxZSteps..MaxZSteps, d \in -1..1}

\* Measurement values tried by validate_measurement: a grid from below zero past
\* the largest bound, and every clinical bound with its neighbours 0.001 away.
MaxValueSteps == 42
BoundaryValues ==
    {b + d : b \in {500, 150000, 30000, 200000, 10000, 40000, 20000, 65000},
             d \in -1..1}
ValueInputs == {k * 5000 : k \in -1..MaxValueSteps} \cup BoundaryValues

\* LMS triples tried by calculate_z_score, valid and not, and for each the
\* values M*(1 + k*S/2) for k up to MaxSdSteps either side, with neighbours.
MaxSdSteps == 9
LInputs ==
    {-ONE, -17330000, -(LEps + 1), -LEps, 0, LEps, LEps + 1, 5000000, ONE, 2 * ONE}
MInputs == {-1000, 0, 10000, 17300}
SInputs == {-1000000, 0, 8000000, 10000000, 20000000, 30000000}
SdValues(M, S) ==
    {-1000, 0} \cup {M + MulDiv(M, k * S, 2 * ONE) + d :
                        k \in -MaxSdSteps..MaxSdSteps, d \in -1..1}

\* Arguments tried by calculate_growth_parameters: per type a grid of
\* MaxGridSteps values across the reference medians, the clinical bounds with
\* their neighbours, and 0; ages below, in, between and above the table's.
MaxGridSteps == 40
GridLow(t) == IF t = "height_age" THEN 40000
              ELSE IF t = "bmi_age" THEN 10000
              ELSE IF t = "head_age" THEN 30000
              ELSE 2000
GridStep(t) == IF t = "height_age" THEN 2000
               ELSE IF t = "head_age" THEN 750
               ELSE 500
GridValues(t) ==
    {GridLow(t) + k * GridStep(t) : k \in 0..MaxGridSteps} \cup BoundaryValues \cup {0}
AgeInputs == {-100, 0, 25, 650, 1100, 1200, 3600, 4000}
AdjustedAgeInputs == {None, Some(975)}

ClassifyCalls ==
    [fn : {"classify_growth"}, z_score : ZInputs, measurement_type : TypeInputs]
ValidateCalls ==
    [fn : {"validate_measurement"}, value : ValueInputs, measurement_type : TypeInputs]
PercentileCalls ==
    [fn : {"calculate_percentile"}, z_score : ZInputs]
ZScoreCalls ==
    UNION {{[fn |-> "calculate_z_score", value |-> v, L |-> l, M |-> q[1], S |-> q[2]] :
                v \in SdValues(q[1], q[2]), l \in LInputs} :
           q \in MInputs \X SInputs}
GrowthCalls ==
    UNION {{[fn |-> "calculate_growth_parameters", value |-> v, age_months |-> q[1],
             measurement_type |-> t, gender |-> q[2], adjusted_age_months |-> q[3]] :
                v \in GridValues(t), q \in AgeInputs \X GenderInputs \X AdjustedAgeInputs} :
           t \in TypeInputs}

\* Ages tried by get_lms_values called directly: those of AgeInputs, and ages
\* next to the table's first and last, on a half month and between two rows.
LookupAgeInputs == AgeInputs \cup {-1, 1, 50, 75, 575, 3550, 3599, 3601}
LookupCalls ==
    [fn : {"get_lms_values"}, age_months : LookupAgeInputs,
     measurement_type : TypeInputs, gender : GenderInputs]

\* Dates tried: a measurement today or a week ago, of a child born up to three
\* years (1095 days) before today, and gestational ages of 22 to 44 whole weeks:
\* what validate_patient_data lets through to calculate_adjusted_age.
DaysBeforeToday == {0, 1, 7, 10, 30, 31, 56, 100, 183, 365, 730, 1095}
GestationalWeeks == 22..44
AdjustCalls ==
    {c \in [fn : {"calculate_adjusted_age"},
            birth_date : {-d : d \in DaysBeforeToday},
            measurement_date : {-7, 0},
            gestational_weeks : GestationalWeeks] :
        c.birth_date <= c.measurement_date}

\* Submissions tried.  Names: two names of two letters or more (one padded
\* with blanks), a blank first name, a last name of one letter.  Dates: a
\* child 10 days to three years old, a day over three years, measured before
\* birth, born tomorrow.  Gestational ages around 22, 37 and 44 weeks.
\* Heights, weights and head circumferences of children of about the ages
\* tried, absent (0), outside the validator's ranges, and a weight and height
\* whose BMI is over 40.
NamePairs ==
    {<< <<"A", "n", "a">>, <<"L", "e", "e">> >>,
     << <<" ", "A", "l", " ">>, <<"B", "o", " ">> >>,
     << <<" ">>, <<"L", "e", "e">> >>,
     << <<"A", "n", "a">>, <<"L">> >>}
DatePairs ==
    {<<-1096, 0>>, <<-1095, 0>>, <<-365, 0>>, <<-183, 0>>, <<-203, -20>>,
     <<-10, 0>>, <<-10, -20>>, <<1, 0>>}
GestationalAgeInputs == {21, 22, 32, 36, 37, 40, 44, 45}
MeasurementTriples ==
    {<<52000, 3500, 35000>>, <<65000, 7500, 43000>>, <<65000, 7500, 0>>,
     <<75000, 9500, 46000>>, <<95000, 14000, 49000>>, <<75000, 7500, 43000>>,
     <<0, 7500, 0>>, <<65000, 0, 43000>>, <<29900, 7500, 0>>, <<200100, 7500, 0>>,
     <<65000, 400, 0>>, <<65000, 150100, 0>>, <<65000, 7500, 19000>>,
     <<65000, 7500, 65100>>, <<52000, 14000, 35000>>}
SubmissionCalls ==
    {[fn |-> "process_measurement_submission",
      first_name |-> n[1], last_name |-> n[2], gender |-> q[1],
      birth_date |-> q[2][1], measurement_date |-> q[2][2],
      gestational_age |-> q[3],
      height |-> m[1], weight |-> m[2], head_circumference |-> m[3]] :
        n \in NamePairs,
        q \in {"male", "female"} \X DatePairs \X GestationalAgeInputs,
        m \in MeasurementTriples}

\* Runs of main tried.  The event of a run is the one widget that fired: none
\* (the page is only shown), a page chosen in the sidebar, Clear All Data, the
\* form submitted, or one of the pages' buttons.  Forms: a boy of 487 days
\* born at term with all three measurements, a girl of six months born at 32
\* weeks with height and weight, a form with a blank first name, a girl of 487
\* days born at 32 weeks with the height of a newborn and a weight of 20 kg
\* (no measurement of hers is plausible).
Pages == {"New Measurement", "Growth History", "Growth Charts", "Clinical Report"}
Forms ==
    {[fn |-> "process_measurement_submission",
      first_name |-> f[1], last_name |-> f[2], gender |-> f[3],
      birth_date |-> f[4], measurement_date |-> 0, gestational_age |-> f[5],
      height |-> f[6][1], weight |-> f[6][2], head_circumference |-> f[6][3]] :
        f \in {<< <<"A", "n", "a">>, <<"L", "e", "e">>, "male", -487, 40, <<75000, 9500, 46000>> >>,
               << <<" ", "A", "l", " ">>, <<"B", "o", " ">>, "female", -183, 32, <<65000, 7500, 0>> >>,
               << <<" ">>, <<"L", "e", "e">>, "male", -365, 40, <<75000, 9500, 46000>> >>,
               << <<"E", "v", "a">>, <<"R", "o", "y">>, "female", -487, 32, <<52000, 20000, 0>> >>}}
NoForm == CHOOSE f \in Forms : TRUE
MainEvent(event, page, form, chart_type, images_saved) ==
    [event |-> event, page |-> page, form |-> form, chart_type |-> chart_type,
     images_saved |-> images_saved]
MainEvents ==
    {MainEvent("none", "New Measurement", NoForm, t, b) :
         t \in MeasurementTypes, b \in BOOLEAN}
    \cup {MainEvent("navigate", p, NoForm, "weight_age", TRUE) : p \in Pages}
    \cup {MainEvent("submit", "New Measurement", f, "weight_age", TRUE) : f \in Forms}
    \cup {MainEvent(e, "New Measurement", NoForm, "weight_age", TRUE) :
              e \in {"clear_all", "btn_view_charts", "btn_generate_report",
                     "btn_export_csv", "btn_clear_hist", "btn_generate_pdf"}}
MainRun(dataset, e) == [fn |-> "main", dataset |-> dataset] @@ e
\* The first run of a process: no widget has fired yet.
MainCalls ==
    {MainRun(d, e) : d \in {"embedded", "gap"},
                     e \in {x \in MainEvents : x.event = "none"}}
\* The most measurements a session holds when a form is submitted.
MaxStored == 5

\* calculate_bmi called directly: weights and heights without a sign or zero,
\* pairs whose BMI is exactly 10 or 40 and their neighbours, pairs in between.
BmiWeights ==
    {-1000, 0, 500, 1599, 1600, 1601, 3500, 4899, 4900, 4901, 7500, 9500, 12345,
     14000, 39999, 40000, 40001, 150000}
BmiHeights == {-100, 0, 30000, 35000, 40000, 65000, 75000, 100000, 200000}
BmiCalls ==
    {[fn |-> "calculate_bmi", weight_kg |-> w, height_cm |-> h] :
        w \in BmiWeights, h \in BmiHeights}

InitCalls(calls) ==
    /\ pc = "call"
    /\ call \in calls
    /\ ret = None
    /\ trace = <<>>
    /\ session = InitialSession
    /\ tables = IF call.fn = "main" THEN Dataset(call.dataset) ELSE CDC_LMS_DATA

Return(r) ==
    /\ pc' = "done"
    /\ ret' = r.ret
    /\ trace' = r.trace
    /\ UNCHANGED <<call, session, tables>>

DoClassifyGrowth ==
    /\ pc = "call" /\ call.fn = "classify_growth"
    /\ LET out == ClassifyGrowth(call.z_score, call.measurement_type)
       IN  Return([ret |-> Some(out),
                   trace |-> <<Entry("classify_growth",
                                     <<call.z_score, call.measurement_type>>, out)>>])

DoValidateMeasurement ==
    /\ pc = "call" /\ call.fn = "validate_measurement"
    /\ LET out == ValidateMeasurement(call.value, call.measurement_type)
       IN  Return([ret |-> Some(out),
                   trace |-> <<Entry("validate_measurement",
                                     <<call.value, call.measurement_type>>, out)>>])

DoCalculatePercentile ==
    /\ pc = "call" /\ call.fn = "calculate_percentile"
    /\ LET out == CalculatePercentile(call.z_score)
       IN  Return([ret |-> out,
                   trace |-> <<Entry("calculate_percentile", <<call.z_score>>, out)>>])

DoCalculateZScore ==
    /\ pc = "call" /\ call.fn = "calculate_z_score"
    /\ Return(CalculateZScore(call.value, call.L, call.M, call.S))

DoCalculateGrowthParameters ==
    /\ pc = "call" /\ call.fn = "calculate_growth_parameters"
    /\ Return(CalculateGrowthParameters(call.value, call.age_months,
                                        call.measurement_type, call.gender,
                                        call.adjusted_age_months))

DoGetLmsValues ==
    /\ pc = "call" /\ call.fn = "get_lms_values"
    /\ LET out == GetLmsValues(call.age_months, call.measurement_type, call.gender)
       IN  Return([ret |-> out,
                   trace |-> <<Entry("get_lms_values",
                                     <<call.age_months, call.measurement_type,
                                       call.gender>>, out)>>])

DoCalculateAdjustedAge ==
    /\ pc = "call" /\ call.fn = "calculate_adjusted_age"
    /\ Return([ret |-> Some(CalculateAdjustedAge(call.birth_date, call.measurement_date,
                                                 call.gestational_weeks)),
               trace |-> LogAdjustedAge(call.birth_date, call.measurement_date,
                                        call.gestational_weeks)])

DoCalculateBmi ==
    /\ pc = "call" /\ call.fn = "calculate_bmi"
    /\ LET out == CalculateBmi(call.weight_kg, call.height_cm)
       IN  Return([ret |-> out,
                   trace |-> <<Entry("calculate_bmi",
                                     <<call.weight_kg, call.height_cm>>, out)>>])

DoProcessMeasurementSubmission ==
    /\ pc = "call" /\ call.fn = "process_measurement_submission"
    /\ LET r == ProcessMeasurementSubmission(call, session)
       IN  /\ pc' = "done"
           /\ ret' = None
           /\ trace' = r.trace
           /\ session' = r.session
           /\ tables' = TablesWritten(tables, r.session)
           /\ UNCHANGED call

DoMain ==
    /\ pc = "call" /\ call.fn = "main"
    /\ LET r == Main(call, session)
       IN  /\ pc' = "done"
           /\ ret' = None
           /\ trace' = r.trace
           /\ session' = r.session
           /\ tables' = TablesWritten(tables, r.session)
           /\ UNCHANGED call

\* The next widget event: Streamlit runs the script again, in the same
\* process and on the session state the last run left.  After st.rerun() the
\* script runs again before any widget can fire.
NextRun ==
    /\ pc = "done" /\ call.fn = "main"
    /\ \E e \in MainEvents :
          /\ trace[Len(trace)].fn = "st.rerun" => e.event = "none"
          /\ e.event = "submit" => Len(session.measurements) < MaxStored
          /\ call' = MainRun(call.dataset, e)
    /\ pc' = "call"
    /\ ret' = None
    /\ trace' = <<>>
    /\ UNCHANGED <<session, tables>>

Init == InitCalls(ClassifyCalls \cup ValidateCalls \cup PercentileCalls
                    \cup ZScoreCalls \cup GrowthCalls \cup LookupCalls
                    \cup AdjustCalls \cup SubmissionCalls \cup MainCalls
                    \cup BmiCalls)

Next ==
    \/ DoClassifyGrowth
    \/ DoValidateMeasurement
    \/ DoCalculatePercentile
    \/ DoCalculateZScore
    \/ DoCalculateGrowthParameters
    \/ DoGetLmsValues
    \/ DoCalculateAdjustedAge
    \/ DoCalculateBmi
    \/ DoProcessMeasurementSubmission
    \/ DoMain
    \/ NextRun

Spec == Init /\ [][Next]_vars

(***************************************************************************)
(* Properties.  A property of a calculator method is stated over every     *)
(* entry of that method in the call log, so it covers the method called    *)
(* directly and called from calculate_growth_parameters.                   *)
(***************************************************************************)
Done(fn) == pc = "done" /\ call.fn = fn
Logged(fn) == {i \in DOMAIN trace : trace[i].fn = fn}
Transforms == Logged("box_cox") \cup Logged("log")

\* C1: for BMI-for-age every Z-score falls in exactly the band the spec names:
\* Z < -2 severe underweight, [-2,-1) moderate underweight, [-1,1] healthy
\* weight, (1,2] overweight, > 2 obese.
C1_BmiBands ==
    \A i \in Logged("classify_growth") :
        LET z_score == trace[i].args[1]
            z == z_score.val
        IN  (trace[i].args[2] = "bmi_age" /\ ~z_score.isNone) =>
            /\ z < -200000000 => trace[i].out = <<"Severe underweight", "severe">>
            /\ (-200000000 <= z /\ z < -100000000)
                   => trace[i].out = <<"Moderate underweight", "moderate">>
            /\ (-100000000 <= z /\ z <= 100000000)
                   => trace[i].out = <<"Healthy weight", "normal">>
            /\ (100000000 < z /\ z <= 200000000)
                   => trace[i].out = <<"Overweight", "moderate">>
            /\ z > 200000000 => trace[i].out = <<"Obese", "severe">>

\* C1 witness: BMI-for-age classified at the edge Z = -2 exactly, as moderate.
C1_Witness ==
    /\ Done("classify_growth")
    /\ call.measurement_type = "bmi_age"
    /\ call.z_score = Some(-200000000)
    /\ ret = Some(<<"Moderate underweight", "moderate">>)

\* C2: for every other measurement type every Z-score falls in exactly the band
\* the spec names: < -3 critical, [-3,-2) severe, [-2,-1) moderate, [-1,1]
\* normal, (1,2] moderate, (2,3] severe, > 3 critical.
C2_OtherBands ==
    \A i \in Logged("classify_growth") :
        LET z_score == trace[i].args[1]
            z == z_score.val
            out == trace[i].out
        IN  (trace[i].args[2] # "bmi_age" /\ ~z_score.isNone) =>
            /\ z < -300000000 => out = <<"Extremely low (< 0.1%)", "critical">>
            /\ (-300000000 <= z /\ z < -200000000)
                   => out = <<"Very low (< 2.3%)", "severe">>
            /\ (-200000000 <= z /\ z < -100000000)
                   => out = <<"Mildly low (2.3-15.9%)", "moderate">>
            /\ (-100000000 <= z /\ z <= 100000000)
                   => out = <<"Normal (15.9-84.1%)", "normal">>
            /\ (100000000 < z /\ z <= 200000000)
                   => out = <<"High (84.1-97.7%)", "moderate">>
            /\ (200000000 < z /\ z <= 300000000)
                   => out = <<"Very high (97.7-99.9%)", "severe">>
            /\ z > 300000000 => out = <<"Extremely high (> 99.9%)", "critical">>

\* C2 witness: weight-for-age classified at the edge Z = 3 exactly, as very high.
C2_Witness ==
    /\ Done("classify_growth")
    /\ call.measurement_type = "weight_age"
    /\ call.z_score = Some(300000000)
    /\ ret = Some(<<"Very high (97.7-99.9%)", "severe">>)

\* C3: in every result of calculate_growth_parameters the severity is one of
\* normal, moderate, severe, critical, and is_abnormal is true exactly for the
\* last three and false exactly for normal.
C3_AbnormalIffSeverity ==
    (Done("calculate_growth_parameters") /\ ~ret.isNone) =>
        /\ ret.val.severity \in {"normal", "moderate", "severe", "critical"}
        /\ ret.val.is_abnormal = TRUE
               <=> ret.val.severity \in {"moderate", "severe", "critical"}
        /\ ret.val.is_abnormal = FALSE <=> ret.val.severity = "normal"

\* C3 witness: a result of the moderate tier, flagged abnormal.
C3_Witness ==
    /\ Done("calculate_growth_parameters")
    /\ ~ret.isNone
    /\ ret.val.severity = "moderate"
    /\ ret.val.is_abnormal

\* The clinical bounds the spec gives, in 1/1000 units.
SpecBoundsHold(value, measurement_type) ==
    \/ measurement_type = "weight_age" /\ 500 <= value /\ value <= 150000
    \/ measurement_type = "height_age" /\ 30000 <= value /\ value <= 200000
    \/ measurement_type = "bmi_age" /\ 10000 <= value /\ value <= 40000
    \/ measurement_type = "head_age" /\ 20000 <= value /\ value <= 65000

\* C4: validate_measurement is true exactly when the value lies in the inclusive
\* bound of its type (weight 0.5..150, height 30..200, BMI 10..40, head
\* circumference 20..65), and false for an unknown type.
C4_ValidateBounds ==
    \A i \in Logged("validate_measurement") :
        trace[i].out = SpecBoundsHold(trace[i].args[1], trace[i].args[2])

\* C4 witness: a height of exactly 200 cm accepted, called directly.
C4_Witness ==
    /\ Done("validate_measurement")
    /\ call.measurement_type = "height_age"
    /\ call.value = 200000
    /\ ret = Some(TRUE)

\* C5: a value outside its type's clinical bound, 0 in particular, makes
\* calculate_growth_parameters return None with no LMS lookup, no Z-score
\* calculation and no transform in its call log.
C5_RejectedBeforeTransform ==
    (/\ Done("calculate_growth_parameters")
     /\ \/ call.value = 0
        \/ /\ call.measurement_type \in MeasurementTypes
           /\ ~SpecBoundsHold(call.value, call.measurement_type))
    => /\ ret.isNone
       /\ Logged("get_lms_values") = {}
       /\ Logged("calculate_z_score") = {}
       /\ Logged("_validate_clinical_range") = {}
       /\ Transforms = {}

\* C5 witness: head circumference 0 rejected.
C5_Witness ==
    /\ Done("calculate_growth_parameters")
    /\ call.measurement_type = "head_age"
    /\ call.value = 0
    /\ ret.isNone

\* |value - M| <= 4*S*M, the interval [M(1-4S), M(1+4S)] for M, S > 0.
InPlausibleInterval(value, M, S) ==
    IF value >= M THEN ProdLeq(value - M, ONE, 4 * S, M)
    ELSE ProdLeq(M - value, ONE, 4 * S, M)

\* C6: calculate_z_score gives None for every value outside
\* [M(1-4S), M(1+4S)] and then runs no transform, so that
\* calculate_growth_parameters gives no result and computes no percentile; a
\* value inside the interval, bounds included, passes the gate, and the gate is
\* logged before the transform.  In a log of several calls (a submission) the
\* rejected call ends at its gate: the next entry is no transform, percentile
\* or classification, and a percentile is only computed right after a
\* transform.
C6_PlausibilityGate ==
    /\ \A i \in Logged("calculate_z_score") :
          LET value == trace[i].args[1]
              M == trace[i].args[3]
              S == trace[i].args[4]
          IN  (value > 0 /\ M > 0 /\ S > 0) =>
              IF InPlausibleInterval(value, M, S)
              THEN /\ ~trace[i].out.isNone
                   /\ trace[i + 1].fn = "_validate_clinical_range"
                   /\ trace[i + 1].out = TRUE
                   /\ i + 2 \in Transforms
              ELSE /\ trace[i].out.isNone
                   /\ trace[i + 1].fn = "_validate_clinical_range"
                   /\ trace[i + 1].out = FALSE
                   /\ i + 2 \in DOMAIN trace =>
                          trace[i + 2].fn \notin {"box_cox", "log", "calculate_percentile",
                                                  "classify_growth",
                                                  "calculate_exact_percentiles"}
                   /\ (pc = "done" /\ call.fn \in {"calculate_z_score",
                                                   "calculate_growth_parameters"})
                          => ret.isNone /\ Transforms = {}
                                        /\ Logged("calculate_percentile") = {}
    /\ \A j \in Transforms :
          /\ j > 1
          /\ trace[j - 1].fn = "_validate_clinical_range"
          /\ trace[j - 1].out = TRUE
          /\ InPlausibleInterval(trace[j].args[1], trace[j].args[3], trace[j].args[4])
    /\ \A j \in Logged("calculate_percentile") : j > 1 => j - 1 \in Transforms

\* C6 witness: the upper bound M(1+4S) itself (10 * 1.4 = 14) passes, called directly.
C6_Witness ==
    /\ Done("calculate_z_score")
    /\ call.value = 14000 /\ call.M = 10000 /\ call.S = 10000000
    /\ ~ret.isNone

\* C7: with value <= 0 or M <= 0 or S <= 0 calculate_z_score returns None.
C7_InvalidInputsGiveNone ==
    \A i \in Logged("calculate_z_score") :
        (trace[i].args[1] <= 0 \/ trace[i].args[3] <= 0 \/ trace[i].args[4] <= 0)
            => trace[i].out = None

\* C7 witness: S = 0 with value = M > 0 returned None.
C7_Witness ==
    /\ Done("calculate_z_score")
    /\ call.S = 0 /\ call.M = 10000 /\ call.value = 10000
    /\ ret = None

\* C8: every Z-score returned lies in [-5, 5]; a transform above 5 is returned
\* as 5 and one below -5 as -5; the z_score of a growth result lies in [-5, 5].
C8_ZClamped ==
    /\ \A i \in Logged("calculate_z_score") :
          ~trace[i].out.isNone =>
              /\ -500000000 <= trace[i].out.val
              /\ trace[i].out.val <= 500000000
              /\ trace[i + 2].out > 500000000 => trace[i].out.val = 500000000
              /\ trace[i + 2].out < -500000000 => trace[i].out.val = -500000000
    /\ (Done("calculate_growth_parameters") /\ ~ret.isNone) =>
          /\ -500000000 <= ret.val.z_score
          /\ ret.val.z_score <= 500000000

\* C8 witness: a transform below -5 returned as -5.
C8_Witness ==
    /\ Done("calculate_z_score")
    /\ \E j \in Transforms : trace[j].out < -500000000
    /\ ret = Some(-500000000)

\* C9: for a Z-score that is not None calculate_percentile returns 100 * CDF(Z),
\* replaced by 0.01 when smaller and by 99.99 when larger, so a value in
\* [0.01, 99.99].
C9_PercentileClamped ==
    \A i \in Logged("calculate_percentile") :
        LET z_score == trace[i].args[1]
            cdf == NormCdf100(z_score.val)
            out == trace[i].out
        IN  ~z_score.isNone =>
            /\ ~out.isNone
            /\ 10000 <= out.val /\ out.val <= 99990000
            /\ cdf < 10000 => out.val = 10000
            /\ cdf > 99990000 => out.val = 99990000
            /\ (10000 <= cdf /\ cdf <= 99990000) => out.val = cdf

\* C9 witness: Z = -5, whose CDF is below 0.01 percent, returned as 0.01.
C9_Witness ==
    /\ Done("calculate_percentile")
    /\ call.z_score = Some(-500000000)
    /\ NormCdf100(-500000000) < 10000
    /\ ret = Some(10000)

\* C10: with M > 0, S > 0 and L within 2e-6 of 0 (on either side of the
\* code's threshold 1e-6) the median itself, value = M, gives Z = 0, and the
\* percentile of that Z is 50.0.
C10_MedianMapsToMedian ==
    \A i \in Logged("calculate_z_score") :
        LET value == trace[i].args[1]
            L == trace[i].args[2]
            M == trace[i].args[3]
            S == trace[i].args[4]
        IN  (M > 0 /\ S > 0 /\ -200 <= L /\ L <= 200 /\ value = M) =>
            /\ trace[i].out = Some(0)
            /\ CalculatePercentile(trace[i].out) = Some(50000000)

\* C10 witness: L = 1e-6, value = M = 17.3 evaluated by the logarithm to Z = 0.
C10_Witness ==
    /\ Done("calculate_z_score")
    /\ call.L = 100 /\ call.value = 17300 /\ call.M = 17300 /\ call.S = 8000000
    /\ \E j \in Logged("log") : trace[j].out = 0
    /\ ret = Some(0)

\* The amounts by which C11 raises a value: 0.001 (the least step), 0.05 and 1.
ValueSteps == {1, 50, 1000}

\* C11: for fixed (L, M, S), whenever a value and a larger one both yield a
\* Z-score, the larger value's Z and percentile are not smaller, and they are
\* strictly larger unless one of the two results sits on its clamp bound
\* (Z = -5 or 5, percentile = 0.01 or 99.99).
C11_Monotone ==
    \A i \in Logged("calculate_z_score") :
        \A d \in ValueSteps :
            LET z1 == trace[i].out
                z2 == CalculateZScore(trace[i].args[1] + d, trace[i].args[2],
                                      trace[i].args[3], trace[i].args[4]).ret
                p1 == CalculatePercentile(z1)
                p2 == CalculatePercentile(z2)
            IN  (~z1.isNone /\ ~z2.isNone) =>
                /\ z1.val <= z2.val
                /\ p1.val <= p2.val
                /\ ({z1.val, z2.val} \cap {-500000000, 500000000} = {})
                       => z1.val < z2.val
                /\ ({p1.val, p2.val} \cap {10000, 99990000} = {})
                       => p1.val < p2.val

\* C11 witness: with L = 0.05, M = 10, S = 0.08 the median gives Z = 0 and the
\* value 0.001 above it a larger Z and a larger percentile, neither clamped.
C11_Witness ==
    /\ Done("calculate_z_score")
    /\ call.value = 10000 /\ call.L = 5000000 /\ call.M = 10000 /\ call.S = 8000000
    /\ ret = Some(0)
    /\ LET z2 == CalculateZScore(10001, 5000000, 10000, 8000000).ret
       IN  /\ ~z2.isNone
           /\ 0 < z2.val /\ z2.val < 500000000
           /\ CalculatePercentile(ret).val < CalculatePercentile(z2).val

\* A calculate_growth_parameters call for a male BMI of 17.0 at this
\* chronological age (in 1/100 months), no adjusted age given, has returned.
MaleBmi17At(age_months) ==
    /\ Done("calculate_growth_parameters")
    /\ call.gender = "male" /\ call.measurement_type = "bmi_age"
    /\ call.value = 17000
    /\ call.age_months = age_months /\ call.adjusted_age_months = None

\* C12 as stated: at 12 months the entry resolved is L = 0.05, M = 17.30,
\* S = 0.082 and the Z-score is negative, about -0.213, the percentile about
\* 41.6, the class healthy weight and is_abnormal false.
C12_AsStated ==
    MaleBmi17At(1200) =>
        /\ ~ret.isNone
        /\ ret.val.lms_data = [L |-> 5000000, M |-> 17300, S |-> 8200000]
        /\ -21400000 <= ret.val.z_score /\ ret.val.z_score <= -21200000
        /\ 41500000 <= ret.val.percentile /\ ret.val.percentile <= 41700000
        /\ ret.val.classification = "Healthy weight"
        /\ ret.val.is_abnormal = FALSE

\* C12 amended: at 12 months the entry resolved, by exact match, is L = 0.05,
\* M = 17.00, S = 0.082, so the value 17.0 is the median: Z = 0, percentile
\* 50.0, healthy weight, is_abnormal false.  The entry with M = 17.30 is the one
\* of 11 months, where 17.0 gives Z about -0.213 and percentile about 41.6,
\* healthy weight, is_abnormal false.
C12_MedianAtTwelveMonths ==
    /\ MaleBmi17At(1200) =>
          /\ ~ret.isNone
          /\ ret.val.lms_data = [L |-> 5000000, M |-> 17000, S |-> 8200000]
          /\ \A i \in Logged("get_lms_values") :
                /\ trace[i].args[1] = 1200
                /\ trace[i].args[1] \in DOMAIN CDC_LMS_DATA["male"]["bmi_age"]
          /\ ret.val.z_score = 0
          /\ ret.val.percentile = 50000000
          /\ ret.val.classification = "Healthy weight"
          /\ ret.val.severity = "normal"
          /\ ret.val.is_abnormal = FALSE
    /\ MaleBmi17At(1100) =>
          /\ ~ret.isNone
          /\ ret.val.lms_data = [L |-> 5000000, M |-> 17300, S |-> 8200000]
          /\ -21400000 <= ret.val.z_score /\ ret.val.z_score <= -21200000
          /\ 41500000 <= ret.val.percentile /\ ret.val.percentile <= 41700000
          /\ ret.val.classification = "Healthy weight"
          /\ ret.val.is_abnormal = FALSE

\* C12 witness: the male BMI 17.0 at 12 months evaluated to Z = 0.
C12_Witness ==
    /\ MaleBmi17At(1200)
    /\ ~ret.isNone
    /\ ret.val.z_score = 0
    /\ ret.val.lms_data.M = 17000

\* The age a calculate_growth_parameters call asks the reference for, before
\* any clamping: the adjusted age when one is given, else the chronological.
RequestedAge ==
    IF call.adjusted_age_months.isNone THEN call.age_months
    ELSE call.adjusted_age_months.val

\* C13: every table's first age is month 0 and its last month 36; for a
\* supported sex and type get_lms_values answers an age below the first with
\* the first entry and an age above the last with the last entry, and a result
\* of calculate_growth_parameters for an age below 0 carries the month-0 entry
\* and for an age above 36 the month-36 entry.
C13_BoundaryEntries ==
    /\ \A i \in Logged("get_lms_values") :
          LET age_months == trace[i].args[1]
              measurement_type == trace[i].args[2]
              gender == trace[i].args[3]
          IN  (gender \in {"male", "female"} /\ measurement_type \in MeasurementTypes) =>
              LET chart == CDC_LMS_DATA[gender][measurement_type]
              IN  /\ SetMin(DOMAIN chart) = 0
                  /\ SetMax(DOMAIN chart) = 3600
                  /\ age_months < 0 => trace[i].out = Some(chart[0])
                  /\ age_months > 3600 => trace[i].out = Some(chart[3600])
    /\ (Done("calculate_growth_parameters") /\ ~ret.isNone) =>
          LET chart == CDC_LMS_DATA[call.gender][call.measurement_type]
          IN  /\ RequestedAge < 0 => ret.val.lms_data = chart[0]
              /\ RequestedAge > 3600 => ret.val.lms_data = chart[3600]

\* C13 witness: get_lms_values asked directly for 40 months, beyond the table,
\* answered with the female head-circumference entry of month 36.
C13_Witness ==
    /\ Done("get_lms_values")
    /\ call.age_months = 4000
    /\ call.gender = "female" /\ call.measurement_type = "head_age"
    /\ ret = Some(LMS_female_head_age[3600])

\* A result of calculate_growth_parameters for an age below 0 (the other half
\* of C13's case).
C13_ResultBelowZero ==
    /\ Done("calculate_growth_parameters")
    /\ ~ret.isNone
    /\ RequestedAge < 0

\* C14: get_lms_values returns an entry for every supported sex and type at
\* every age tried, inside or outside 0..36, tabulated or not, and None exactly
\* when the sex or the type is not a supported one.
C14_LookupTotal ==
    \A i \in Logged("get_lms_values") :
        trace[i].out.isNone
            <=> (trace[i].args[3] \notin {"male", "female"}
                 \/ trace[i].args[2] \notin
                        {"weight_age", "height_age", "bmi_age", "head_age"})

\* C14 witness: an entry returned for an age between two rows, below month 1.
C14_Witness ==
    /\ Done("get_lms_values")
    /\ call.age_months = 75
    /\ call.gender = "male" /\ call.measurement_type = "weight_age"
    /\ ~ret.isNone

\* age is days / 30.436875 in 1/100 months, cut to a whole number of them:
\* age * 30.436875 <= 100 * days < (age + 1) * 30.436875.
IsAgeOfDays(age, days) ==
    /\ ProdLeq(age, 30436875, 1000000, days * 100)
    /\ ~ProdLeq(age + 1, 30436875, 1000000, days * 100)

\* C16: for every gestational age of 37 weeks or more calculate_adjusted_age
\* returns was_adjusted = false and the chronological age, the elapsed days
\* divided by 30.436875.
C16_TermNotAdjusted ==
    \A i \in Logged("calculate_adjusted_age") :
        trace[i].args[3] >= 37 =>
            /\ trace[i].out[2] = FALSE
            /\ ~trace[i].out[1].isNone
            /\ IsAgeOfDays(trace[i].out[1].val, trace[i].args[2] - trace[i].args[1])

\* C16 witness: 40 weeks, 183 days old: 6.01 months, not adjusted.
C16_Witness ==
    /\ Done("calculate_adjusted_age")
    /\ call.gestational_weeks = 40
    /\ call.measurement_date - call.birth_date = 183
    /\ ret = Some(<<Some(601), FALSE>>)

\* C17: for every gestational age below 37 weeks calculate_adjusted_age returns
\* was_adjusted = true and max(0, chronological age - (40 - weeks) / 4.345),
\* which is not negative and not above the chronological age; 32 weeks lowers
\* an age of 6 months by 1.84 months.
C17_PretermAdjusted ==
    \A i \in Logged("calculate_adjusted_age") :
        LET weeks == trace[i].args[3]
            days == trace[i].args[2] - trace[i].args[1]
            adjusted == trace[i].out[1].val
        IN  weeks < 37 =>
            /\ trace[i].out[2] = TRUE
            /\ ~trace[i].out[1].isNone
            /\ adjusted >= 0
            /\ \E lowering \in 0..500 :
                  /\ lowering * 4345 <= (40 - weeks) * 100000
                  /\ (40 - weeks) * 100000 < (lowering + 1) * 4345
                  /\ weeks = 32 => lowering = 184
                  /\ \E age \in (IF adjusted > 0 THEN {adjusted + lowering}
                                 ELSE 0..lowering) :
                        /\ IsAgeOfDays(age, days)
                        /\ adjusted <= age
                        /\ adjusted = IF age >= lowering THEN age - lowering ELSE 0

\* C17 witness: 32 weeks, 183 days old: 6.01 months lowered by 1.84 to 4.17.
C17_Witness ==
    /\ Done("calculate_adjusted_age")
    /\ call.gestational_weeks = 32
    /\ call.measurement_date - call.birth_date = 183
    /\ ret = Some(<<Some(417), TRUE>>)

\* An adjusted age held at 0: born 10 days ago at 30 weeks (C17's other case).
C17_HeldAtZero ==
    /\ Done("calculate_adjusted_age")
    /\ call.gestational_weeks = 30
    /\ call.measurement_date - call.birth_date = 10
    /\ ret = Some(<<Some(0), TRUE>>)

\* The entry the reference gives for a type and sex at an age held to 0..36
\* months.
ResolvedAt(age, measurement_type, gender) ==
    GetLmsValues(IF age < 0 THEN 0 ELSE IF age > 3600 THEN 3600 ELSE age,
                 measurement_type, gender).val

\* C15: every measurement a submission stores carries the chronological age of
\* the elapsed days; with a gestational age below 37 weeks its LMS entry is the
\* one resolved at the adjusted age that calculate_adjusted_age returned (held
\* to 0..36), with 37 weeks or more the one resolved at the chronological age.
C15_LmsAtEffectiveAge ==
    Done("process_measurement_submission") =>
        \A k \in DOMAIN session.measurements :
            LET m == session.measurements[k]
            IN  /\ IsAgeOfDays(m.age_months, call.measurement_date - call.birth_date)
                /\ \A i \in Logged("calculate_adjusted_age") :
                      /\ trace[i].out[2] = (call.gestational_age < 37)
                      /\ m.adjusted_age_months = trace[i].out[1]
                /\ IF call.gestational_age < 37
                   THEN m.lms_data = ResolvedAt(m.adjusted_age_months.val,
                                                m.type, call.gender)
                   ELSE m.lms_data = ResolvedAt(m.age_months, m.type, call.gender)

\* C15 witness: a child born at 32 weeks, 183 days old (6.01 months, adjusted
\* 4.17): the height stored carries the entry of 4.17 months, which is not the
\* entry of 6.01 months.
C15_Witness ==
    /\ Done("process_measurement_submission")
    /\ call.gestational_age = 32
    /\ call.measurement_date - call.birth_date = 183
    /\ \E k \in DOMAIN session.measurements :
          /\ session.measurements[k].type = "height_age"
          /\ session.measurements[k].lms_data = ResolvedAt(417, "height_age", call.gender)
          /\ session.measurements[k].lms_data # ResolvedAt(601, "height_age", call.gender)

\* C18: process_measurement_submission calls calculate_adjusted_age (and
\* calculate_age_months) only with a gestational age of 22 to 44 weeks: with
\* one outside, validate_patient_data reports an error and neither is called.
C18_GestationCheckedFirst ==
    call.fn = "process_measurement_submission" =>
        /\ \A i \in Logged("calculate_adjusted_age") :
              /\ 22 <= trace[i].args[3] /\ trace[i].args[3] <= 44
              /\ \E j \in Logged("validate_patient_data") : j < i /\ trace[j].out = <<>>
        /\ (pc = "done" /\ (call.gestational_age < 22 \/ call.gestational_age > 44)) =>
              /\ Logged("calculate_adjusted_age") = {}
              /\ Logged("calculate_age_months") = {}
              /\ \E j \in Logged("validate_patient_data") : trace[j].out # <<>>

\* C18 witness: a submission whose only fault is a gestational age of 45 weeks
\* ended with that one error and without a call of calculate_adjusted_age.
C18_Witness ==
    /\ Done("process_measurement_submission")
    /\ call.gestational_age = 45
    /\ trace[1].fn = "validate_patient_data"
    /\ trace[1].out = <<"Gestational age must be between 22 and 44 weeks">>
    /\ Logged("calculate_adjusted_age") = {}

\* C19: each of the eight embedded (sex, measurement type) tables has an entry
\* for every integer month 0..36, and validate_dataset_completeness returns
\* an empty issue list for the embedded data.
C19_EmbeddedTablesComplete ==
    /\ \A gender \in {"male", "female"} : \A measurement_type \in MeasurementTypes :
           \A month \in 0..36 : month * AS \in DOMAIN CDC_LMS_DATA[gender][measurement_type]
    /\ \A i \in Logged("validate_dataset_completeness") :
           trace[i].args = <<"embedded">> => trace[i].out = <<>>

\* A run of main on the embedded tables: the check found nothing and the
\* sidebar says the dataset is complete.
C19_Witness ==
    /\ Done("main")
    /\ call.dataset = "embedded"
    /\ \E i \in Logged("validate_dataset_completeness") : trace[i].out = <<>>
    /\ Logged("st.sidebar.success") # {}

PageHandlers ==
    {"show_new_measurement", "show_growth_history", "show_growth_charts",
     "show_clinical_report"}
GrowthCalculations ==
    {"calculate_growth_parameters", "calculate_z_score", "calculate_percentile"}

C20_ComputesDespiteGap ==
    /\ Done("main")
    /\ \E i \in Logged("validate_dataset_completeness") : trace[i].out # <<>>
    /\ Logged("st.sidebar.warning") # {}
    /\ Logged("show_new_measurement") # {}
    /\ Logged("calculate_percentile") # {}

AgeAndGrowthCalculations ==
    {"calculate_age_months", "calculate_adjusted_age", "calculate_bmi",
     "validate_measurement", "get_lms_values", "calculate_growth_parameters",
     "calculate_z_score", "_validate_clinical_range", "box_cox", "log",
     "calculate_percentile", "classify_growth", "calculate_exact_percentiles"}
ValidationFailed(log) ==
    \E i \in DOMAIN log :
        /\ log[i].fn \in {"validate_patient_data", "validate_measurements"}
        /\ log[i].out # <<>>

\* C21: a submission for which validate_patient_data or validate_measurements
\* reports an error runs no age or growth calculation and leaves the session
\* state (measurements, patient_info, charts_generated, saved_charts,
\* current_page) as it was, called directly or from the form of a run of main.
C21_ErrorLeavesSession ==
    [][(pc = "call" /\ pc' = "done" /\ ValidationFailed(trace'))
          => /\ session' = session
             /\ \A j \in DOMAIN trace' : trace'[j].fn \notin AgeAndGrowthCalculations]_vars

\* A form with a blank first name submitted in a session that already holds
\* measurements: the error is shown and the measurements are still there.
C21_Witness ==
    /\ Done("main")
    /\ call.event = "submit"
    /\ ValidationFailed(trace)
    /\ session.measurements # <<>>
    /\ Logged("st.error") # {}

\* A direct call rejected by validate_measurements only.
C21_MeasurementsRejected ==
    /\ Done("process_measurement_submission")
    /\ \E i \in Logged("validate_measurements") : trace[i].out # <<>>

C22_HeldAtBirthRow ==
    /\ Done("process_measurement_submission")
    /\ \E row \in HeldRows(tables, session) : row[3] = 0

\* 10 <= weight_kg / (height_cm/100)^2 <= 40, exactly: height^2 <= weight * 10^6
\* and weight * 250000 <= height^2 (weights and heights in 1/1000 units).
BmiQuotientInRange(w, h) == ProdGeq(w, 1000000, h, h) /\ ProdLeq(w, 250000, h, h)

\* bmi (in 1/1000 units) is a multiple of 0.01 within 0.005 of the quotient:
\* (2 b - 1) h^2 <= 2 * 10^9 w <= (2 b + 1) h^2 for b = bmi in 0.01 units.
BmiRoundsQuotient(bmi, w, h) ==
    /\ bmi % 10 = 0
    /\ ProdLeq((2 * (bmi \div 10) - 1) * h, h, w, 2000000000)
    /\ ProdGeq((2 * (bmi \div 10) + 1) * h, h, w, 2000000000)

C23_RoundsUpToForty ==
    /\ Done("calculate_bmi")
    /\ call.weight_kg = 39999 /\ call.height_cm = 100000
    /\ ret = Some(40 * VS)
C23_InSubmission ==
    /\ Done("process_measurement_submission")
    /\ \E i \in Logged("calculate_bmi") : ~trace[i].out.isNone
C23_NoneInSubmission ==
    /\ Done("process_measurement_submission")
    /\ \E i \in Logged("calculate_bmi") :
           trace[i].out.isNone /\ trace[i].args[1] > 0 /\ trace[i].args[2] > 0

\* The entries of the age stage (calculate_age_months, calculate_adjusted_age
\* and the calculate_age_months it calls) in the log of a submission.
AgeStage == Logged("calculate_adjusted_age") \cup Logged("calculate_age_months")
HasSubmission == Logged("validate_patient_data") # {}

IsInterpolant(value, lower, upper, age, lower_age, upper_age) ==
    /\ Abs((value - lower) * (upper_age - lower_age) - (upper - lower) * (age - lower_age))
           < upper_age - lower_age
    /\ Min2(lower, upper) <= value
    /\ value <= Max2(lower, upper)

\* C25: for an age within the table's range get_lms_values returns the
\* piecewise-linear interpolant of the table: the entry itself at a tabulated
\* age, and otherwise, between the adjacent tabulated ages lower and upper,
\* each of L, M, S is param(lower) + t * (param(upper) - param(lower)) and so
\* lies between the two tabulated values.
C25_PiecewiseLinear ==
    \A i \in Logged("get_lms_values") :
        LET age == trace[i].args[1]
            measurement_type == trace[i].args[2]
            gender == trace[i].args[3]
            out == trace[i].out
        IN  (/\ gender \in DOMAIN CDC_LMS_DATA
             /\ measurement_type \in DOMAIN CDC_LMS_DATA[gender]
             /\ age >= 0 /\ age <= 36 * AS) =>
            LET chart == CDC_LMS_DATA[gender][measurement_type]
                lower_age == SetMax({a \in DOMAIN chart : a <= age})
                upper_age == SetMin({a \in DOMAIN chart : a >= age})
            IN  /\ ~out.isNone
                /\ IF age \in DOMAIN chart THEN out.val = chart[age]
                   ELSE /\ lower_age < age /\ age < upper_age
                        /\ \A a \in DOMAIN chart : a <= lower_age \/ a >= upper_age
                        /\ IsInterpolant(out.val.L, chart[lower_age].L, chart[upper_age].L,
                                         age, lower_age, upper_age)
                        /\ IsInterpolant(out.val.M, chart[lower_age].M, chart[upper_age].M,
                                         age, lower_age, upper_age)
                        /\ IsInterpolant(out.val.S, chart[lower_age].S, chart[upper_age].S,
                                         age, lower_age, upper_age)

\* Male weight at 6.5 months, between the rows of 6 months (M = 8.86) and 7
\* months (M = 9.32): M = 9.09.
C25_Witness ==
    /\ Done("get_lms_values")
    /\ call.age_months = 650 /\ call.measurement_type = "weight_age"
    /\ call.gender = "male"
    /\ ret = Some([L |-> 34300000, M |-> 9090, S |-> 9502000])

\* An interpolation a quarter of the way between two rows with different L, M
\* and S, in the lookup of a submission.
C25_InSubmission ==
    /\ Done("process_measurement_submission")
    /\ \E i \in Logged("get_lms_values") :
           /\ trace[i].args[1] % AS \notin {0, 50}
           /\ trace[i].out.val.L \notin {r.L : r \in {CDC_LMS_DATA[trace[i].args[3]][trace[i].args[2]][a] :
                                        a \in DOMAIN CDC_LMS_DATA[trace[i].args[3]][trace[i].args[2]]}}

\* C26: every table row has M > 0 and S > 0, and so has every triple that
\* get_lms_values returns for a supported sex and type, at any age (tabulated,
\* interpolated, below 0 or above 36); every calculate_z_score that follows a
\* lookup is called with M > 0 and S > 0, so when it gives None there the
\* reason is the plausibility gate, never the guard on M and S.
C26_PositiveMedianAndSpread ==
    /\ \A gender \in DOMAIN CDC_LMS_DATA :
          \A measurement_type \in DOMAIN CDC_LMS_DATA[gender] :
              \A age \in DOMAIN CDC_LMS_DATA[gender][measurement_type] :
                  /\ CDC_LMS_DATA[gender][measurement_type][age].M > 0
                  /\ CDC_LMS_DATA[gender][measurement_type][age].S > 0
    /\ \A i \in Logged("get_lms_values") :
          (/\ trace[i].args[3] \in DOMAIN CDC_LMS_DATA
           /\ trace[i].args[2] \in DOMAIN CDC_LMS_DATA[trace[i].args[3]]) =>
              /\ ~trace[i].out.isNone
              /\ trace[i].out.val.M > 0
              /\ trace[i].out.val.S > 0
    /\ \A k \in Logged("calculate_z_score") :
          (k > 1 /\ trace[k - 1].fn = "get_lms_values") =>
              /\ trace[k].args[3] > 0
              /\ trace[k].args[4] > 0
              /\ trace[k].args[1] > 0
              /\ trace[k].out.isNone =>
                     /\ trace[k + 1].fn = "_validate_clinical_range"
                     /\ trace[k + 1].out = FALSE

\* A calculate_growth_parameters call at an interpolated age that yields no
\* result: the triple looked up has M > 0 and S > 0 and the gate refused the
\* value.
C26_Witness ==
    /\ Done("calculate_growth_parameters")
    /\ ret.isNone
    /\ \E k \in Logged("calculate_z_score") :
           /\ trace[k].out.isNone
           /\ trace[k - 1].fn = "get_lms_values"
           /\ trace[k - 1].args[1] % AS \notin {0, 50}
           /\ trace[k - 1].out.val.M > 0 /\ trace[k - 1].out.val.S > 0

\* C27: in every reachable session state with charts_generated true, every
\* chart in saved_charts was generated from the current measurements and the
\* current patient_info: its image shows the curves of the patient's gender
\* and the stored measurements of its type, at the ages the patient's
\* gestational age selects.
C27_ChartsAreCurrent ==
    (session.charts_generated /\ ~session.saved_charts.isNone) =>
        /\ ~session.patient_info.isNone
        /\ \A t \in DOMAIN session.saved_charts.val :
               session.saved_charts.val[t]
                   = ChartDrawn(session.measurements, session.patient_info, t)

\* The state the submission of an implausible form leaves: the patient is the
\* girl of the form, the measurements and the charts are still the boy's, and
\* charts_generated is still true.
C27_StaleCharts ==
    /\ Done("main")
    /\ call.event = "submit"
    /\ session.charts_generated
    /\ ~session.saved_charts.isNone
    /\ ~session.patient_info.isNone
    /\ session.patient_info.val.gender = "female"
    /\ \E t \in DOMAIN session.saved_charts.val :
           session.saved_charts.val[t].gender = "male"
    /\ Logged("st.error") # {}

\* A stored measurement computed for the patient p: its ages are those of p's
\* birth date and gestational age at the measurement's date, and its L, M, S
\* are those of p's gender at the effective age.
ComputedFor(m, p) ==
    /\ m.age_months = CalculateAgeMonths(p.birth_date, m.date).val
    /\ m.adjusted_age_months
           = CalculateAdjustedAge(p.birth_date, m.date, p.gestational_age)[1]
    /\ Some(m.lms_data)
           = GetLmsValues(EffectiveAge(m.age_months, m.adjusted_age_months),
                          m.type, p.gender)

\* C28: after any sequence of submissions and clears, every stored
\* measurement was computed with the gender, the birth date and the
\* gestational age now in patient_info: the measurements all belong to the one
\* patient that patient_info describes.
C28_OnePatient ==
    \A i \in DOMAIN session.measurements :
        /\ ~session.patient_info.isNone
        /\ ComputedFor(session.measurements[i], session.patient_info.val)

\* Two patients in one list: after the submission of a second form the
\* measurements of a boy born at term stand next to those of a girl born at
\* 32 weeks, under the girl's patient_info.
C28_TwoPatients ==
    /\ Done("main")
    /\ call.event = "submit"
    /\ ~session.patient_info.isNone
    /\ session.patient_info.val.gender = "female"
    /\ \E i, j \in DOMAIN session.measurements :
           /\ ComputedFor(session.measurements[j], session.patient_info.val)
           /\ ~ComputedFor(session.measurements[i], session.patient_info.val)
           /\ session.measurements[i].lms_data
                  = GetLmsValues(session.measurements[i].age_months,
                                 session.measurements[i].type, "male").val

\* The submissions whose patient data validate_patient_data accepted.
Validated == {k \in Logged("validate_patient_data") : trace[k].out = <<>>}

\* C29: a submission that passes validate_patient_data has between 0 and 1095
\* elapsed days, hence a chronological age of 0 to 36 months: the warning for
\* ages above 36 months is never shown for it, and the effective age of every
\* lookup is the adjusted age itself, not the bound of 36 months put in its
\* place.
C29_ValidatedAgeInChartRange ==
    \A k \in Validated :
        /\ trace[k].args[4] - trace[k].args[3] \in 0..(365 * 3)
        /\ ProdLeq(trace[k].args[4] - trace[k].args[3], 1000000, 36, 30436875)
        /\ \A j \in Logged("calculate_age_months") :
               /\ trace[j].out.val >= 0
               /\ trace[j].out.val <= 36 * AS
        /\ \A j \in Logged("st.warning") :
               trace[j].args # <<"Growth charts are optimized for ages 0-36 months">>
        /\ \A a \in Logged("calculate_adjusted_age") :
               /\ trace[a].out[1].val <= 36 * AS
               /\ \A j \in Logged("get_lms_values") :
                      trace[j].args[1] = trace[a].out[1].val

\* A submission for a child of exactly 1095 days born at term: it is
\* validated, its age is 35.97 months, and its rows are looked up at that age.
C29_Witness ==
    /\ Done("process_measurement_submission")
    /\ Validated # {}
    /\ call.measurement_date - call.birth_date = 365 * 3
    /\ call.gestational_age >= 37
    /\ \E j \in Logged("calculate_age_months") : trace[j].out.val = 3597
    /\ \E j \in Logged("get_lms_values") : trace[j].args[1] = 3597

\* A submission for a child of 1096 days is refused by validate_patient_data
\* and no age is calculated.
C29_OlderRefused ==
    /\ Done("process_measurement_submission")
    /\ call.measurement_date - call.birth_date = 365 * 3 + 1
    /\ Logged("validate_patient_data") # {}
    /\ Validated = {}
    /\ Logged("calculate_age_months") = {}

\* A validated submission of a preterm child whose lookups are at the adjusted
\* age, below the chronological one.
C29_AdjustedBelowBound ==
    /\ Done("main")
    /\ Validated # {}
    /\ \E a \in Logged("calculate_adjusted_age") :
           /\ trace[a].out[2]
           /\ \E j \in Logged("get_lms_values") :
                  /\ trace[j].args[1] = trace[a].out[1].val
                  /\ \E i \in Logged("calculate_age_months") :
                         trace[j].args[1] < trace[i].out.val

\* The two measurement types whose tables have L = 1 throughout.
LinearTypes == {"height_age", "head_age"}

\* The Z-score calls that calculate_growth_parameters made for a height or a
\* head circumference (the call follows the lookup of the triple) and that
\* returned a Z-score.
LinearZScores ==
    {k \in Logged("calculate_z_score") :
        /\ k > 1
        /\ trace[k - 1].fn = "get_lms_values"
        /\ trace[k - 1].args[2] \in LinearTypes
        /\ ~trace[k].out.isNone}

\* (value / M - 1) / S in 1e-8 units.
LinearZ(value, M, S) == MulDiv(MulDiv(value - M, ONE, M), ONE, S)

\* C30: the tables of height-for-age and head-circumference-for-age have
\* L = 1 in every row, so every triple looked up for them has L = 1; every
\* Z-score returned for them is (value / M - 1) / S (to 1e-6), is at most 4
\* in absolute value because the plausibility gate admitted the value, and is
\* the transformed value itself: the clamp to [-5, 5] did not change it.
C30_LinearTypesWithinFour ==
    /\ \A gender \in {"male", "female"}, t \in LinearTypes :
           \A a \in DOMAIN CDC_LMS_DATA[gender][t] :
               CDC_LMS_DATA[gender][t][a].L = ONE
    /\ \A k \in LinearZScores :
           /\ trace[k].args[2] = ONE
           /\ trace[k + 1].fn = "_validate_clinical_range"
           /\ trace[k + 1].out = TRUE
           /\ trace[k + 2].fn = "box_cox"
           /\ trace[k].out.val = trace[k + 2].out
           /\ Abs(trace[k].out.val) <= 4 * ONE
           /\ Abs(trace[k].out.val
                  - LinearZ(trace[k].args[1], trace[k].args[3], trace[k].args[4]))
                  <= ONE \div 1000000
    /\ (Done("calculate_growth_parameters") /\ ~ret.isNone
            /\ call.measurement_type \in LinearTypes)
           => Abs(ret.val.z_score) <= 4 * ONE
    /\ \A i \in DOMAIN session.measurements :
           session.measurements[i].type \in LinearTypes
               => Abs(session.measurements[i].z_score) <= 4 * ONE

\* A height assessed at an interpolated age with a Z-score between 3 and 4 in
\* absolute value, returned as transformed.
C30_Witness ==
    /\ Done("calculate_growth_parameters")
    /\ call.measurement_type = "height_age"
    /\ ~ret.isNone
    /\ Abs(ret.val.z_score) > 3 * ONE
    /\ \E k \in LinearZScores :
           /\ trace[k - 1].args[1] \notin DOMAIN CDC_LMS_DATA["male"]["height_age"]
           /\ trace[k].out.val = ret.val.z_score
           /\ trace[k + 2].out = ret.val.z_score

\* A head circumference stored by a submission with its unclamped Z-score.
C30_HeadStored ==
    /\ Done("main")
    /\ LinearZScores # {}
    /\ \E i \in DOMAIN session.measurements :
           /\ session.measurements[i].type = "head_age"
           /\ session.measurements[i].lms_data.L = ONE
           /\ \E k \in LinearZScores :
                  trace[k + 2].out = session.measurements[i].z_score

\* The clamp at work elsewhere: a direct calculate_z_score call with an L
\* other than 1 whose transformed value the clamp changed.
C30_ClampOnlyElsewhere ==
    /\ Done("calculate_z_score")
    /\ ~ret.isNone
    /\ call.L # ONE
    /\ \E k \in Transforms : trace[k].out # ret.val

====
